---- MODULE Spec2Model ----
(***************************************************************************)
(* HamlibManager (src/rigranger_server/hamlib_manager.py): the session     *)
(* that supervises rigctld, owns the TCP socket, serialises commands and   *)
(* reconnects after a loss.                                                *)
(*                                                                         *)
(* The manager is used from several Python threads at once: the callers of *)
(* its public methods (the server runs them in an executor), one _listen   *)
(* thread per successful connect and one threading.Timer thread per        *)
(* scheduled reconnect.  None of the fields is protected by a lock (only   *)
(* execute_command takes socket_lock), so every method is modelled as the  *)
(* sequence of its reads and writes of the shared fields, one step each,   *)
(* and the threads interleave between steps.                               *)
(***************************************************************************)
EXTENDS Integers, Sequences, FiniteSets, TLC

\* ---------------------------------------------------------------- bounds
NCallers     == 2   \* threads calling the public methods
NCallersA    == 1   \* of which call start_rigctld / connect / stop
MaxOps       == 2   \* start_rigctld / connect / stop calls issued in a run
MaxTimers    == 2   \* Timer threads alive at the same time
MaxListeners == 2   \* _listen threads alive at the same time
LifeListeners == 1  \* of which the runs of the whole life cycle use
MaxSockets   == 2   \* socket objects referenced at the same time
MaxCalls     == 3   \* execute_command calls issued in a run
MaxResp      == 2   \* chunks one execute_command call reads before its 2 s are over
MaxRx        == 2   \* chunks waiting in a socket's receive buffer
MaxText      == 3   \* characters of a command text and of a response text
MaxBody      == 3   \* characters of the data of an answer of rigctld
MaxTyped     == 2   \* typed operations called in a run
MaxHandlers  == 2   \* handlers of each behaviour that register
MaxRegistered == 3  \* registrations made in a run

\* ------------------------------------------------------ program constants
max_reconnect_attempts == 5

Callers   == 1..NCallers
CallersA  == 1..NCallersA   \* the callers of start_rigctld / connect / stop
Timers    == 11..(10 + MaxTimers)
Listeners == 21..(20 + MaxListeners)
Threads   == Callers \cup Timers \cup Listeners
SockIds   == 1..MaxSockets

VARIABLES
    connected,           \* self.connected
    socket,              \* self.socket: 0 is None, else a socket object
    reconnect_timer,     \* self.reconnect_timer: 0 is None, else a Timer thread
    reconnect_attempts,  \* self.reconnect_attempts
    rigctld_process,     \* self.rigctld_process: "none", "running", "exited"
    socket_lock,         \* self.socket_lock: 0 is free, else the holder
    sock,                \* every socket object: state, bytes to read, daemon side
    thread,              \* position and locals of every thread
    emitted,             \* the events emit() delivered in the last step
    returned,            \* what execute_command returned or raised in the last step
    ops,                 \* start/connect/stop calls still to be issued
    calls,               \* execute_command calls issued so far
    outstanding,         \* the request on the wire whose exchange has not ended, or 0
    event_callbacks,     \* self.event_callbacks: the handlers of every kind of event
    binary_path,         \* self.binary_path: "None", else the path of rigctld
    model,               \* self.model
    device,              \* self.device: "None", else the path of the serial device
    port,                \* self.port
    args,                \* self.rigctld_process.args: the command line of the process
    daemons,             \* how many rigctld processes the session has spawned are alive
    DEFAULT_CONFIG,      \* config.DEFAULT_CONFIG: the dictionary of every section
    config_file,         \* the configuration file on the disk
    config               \* the configuration dictionary the caller holds

sessVars == <<connected, socket, reconnect_timer, reconnect_attempts, rigctld_process>>
vars == <<connected, socket, reconnect_timer, reconnect_attempts,
          rigctld_process, socket_lock, sock, thread, emitted, returned, ops, calls, outstanding,
          event_callbacks, binary_path, model, device, port, args, daemons,
          DEFAULT_CONFIG, config_file, config>>
configVars == <<DEFAULT_CONFIG, config_file, config>>
settingVars == <<event_callbacks, binary_path, model, device, port, configVars>>
setupVars == <<settingVars, args, daemons>>

\* ------------------------------------------------------------ events
Status(name, n) == [kind |-> "status", name |-> name, n |-> n]
Debug(name)     == [kind |-> "debug", name |-> name, n |-> 0]

\* ------------------------------------------------------------ helpers
Rec(pc, op, sk) == [pc |-> pc, op |-> op, sk |-> sk, cmd |-> 0, resp |-> <<>>]
Idle == Rec("idle", "none", 0)
Free == Rec("free", "none", 0)

SockRec(st)  == [st |-> st, rx |-> <<>>, pend |-> <<>>]
FreeSock     == SockRec("free")

Min(S) == CHOOSE x \in S : \A y \in S : x <= y

\* a socket object lives as long as something refers to it
Referenced(s, sk0, th) == s = sk0 \/ \E t \in Threads : th[t].sk = s
Collect(sf, sk0, th) ==
    [s \in SockIds |-> IF Referenced(s, sk0, th) THEN sf[s] ELSE FreeSock]

\* socket.close(): the object becomes unusable, what it buffered is dropped
Close(sf, s) == IF s = 0 THEN sf ELSE [sf EXCEPT ![s] = SockRec("closed")]

FreeSocks     == {s \in SockIds : sock[s].st = "free"}
FreeTimers    == {t \in Timers : thread[t].pc = "free"}
FreeListeners == {t \in Listeners : thread[t].pc = "free"}

\* where a thread is when the method it ran has returned
Done(t) == IF t \in Callers THEN Idle ELSE Free

At(t, pc)    == thread[t].pc = pc
Goto(t, pc)  == [thread EXCEPT ![t].pc = pc]

\* ------------------------------------------------------------ settings
\* the kinds of event the constructor makes a handler list for (lines 50-54)
Kinds == {"status", "data", "debug"}

\* str() of a natural number: its decimal digits
DigitChars == <<"0", "1", "2", "3", "4", "5", "6", "7", "8", "9">>
RECURSIVE Str(_)
Str(n) == IF n < 10 THEN <<DigitChars[n + 1]>>
          ELSE Append(Str(n \div 10), DigitChars[(n % 10) + 1])

\* line 168: self.device is given to rigctld when it is not None and not empty
Given(d) == d \notin {"None", ""}

\* the command line with -r whatever the device is
CommandLineWithDevice(b, m, p, d) == <<b, "-m", Str(m), "-t", Str(p), "-r", d>>

\* lines 166-169: the command line of rigctld
CommandLine(b, m, p, d) ==
    <<b, "-m", Str(m), "-t", Str(p)>> \o (IF Given(d) THEN <<"-r", d>> ELSE <<>>)

\* the defaults of config.py (lines 20-32) and of utils.py (lines 243-255):
\* of their sections and keys, the port of the server and the model and the
\* baud rate of the radio
BuiltIn == [server |-> [port |-> 8080], hamlib |-> [model |-> 1, baud |-> 19200]]

\* no file at the path
Missing == [exists |-> FALSE, content |-> <<>>]

\* config.py imported (line 20), no configuration file written and none loaded
Imported ==
    /\ DEFAULT_CONFIG = BuiltIn
    /\ config_file = Missing
    /\ config = <<>>

\* lines 39-43, 50-54 of __init__, find_rigctld_path having returned b: the
\* settings before any configuration, and no handler registered
DefaultModel == 1
DefaultPort  == 4532
Settings(b) ==
    /\ Imported
    /\ event_callbacks = [k \in Kinds |-> <<>>]
    /\ binary_path = b
    /\ model = DefaultModel
    /\ device = "None"
    /\ port = DefaultPort
Unconfigured == Settings("rigctld")

\* ------------------------------------------------------------ Init
\* HamlibManager.__init__, in a run that can have n _listen threads alive
Constructed(n) ==
    /\ connected = FALSE
    /\ socket = 0
    /\ reconnect_timer = 0
    /\ reconnect_attempts = 0
    /\ rigctld_process = "none"
    /\ socket_lock = 0
    /\ sock = [s \in SockIds |-> FreeSock]
    /\ thread = [t \in Threads |->
                   IF t \in Callers THEN Idle
                   ELSE IF t \in Listeners /\ t > 20 + n THEN Rec("unused", "none", 0)
                   ELSE Free]
    /\ emitted = <<>>
    /\ returned = <<>>
    /\ ops = MaxOps
    /\ calls = 0
    /\ outstanding = 0
    /\ args = <<>>
    /\ daemons = 0

\* the same in a process that finds rigctld
InitWith(n) == Constructed(n) /\ Unconfigured

Init == InitWith(LifeListeners)

\* ------------------------------------------------------------ connect()
\* lines 218-227: close and drop the existing socket, create a new one
OpenSocket(t, th) ==
    /\ FreeSocks # {}
    /\ socket' = Min(FreeSocks)
    /\ thread' = th
    /\ sock' = Collect([Close(sock, socket) EXCEPT ![socket'] = SockRec("unconn")],
                       socket', th)

\* a caller invokes connect(): lines 218-227
CallConnect(t) ==
    /\ t \in CallersA /\ At(t, "idle") /\ ops > 0
    /\ OpenSocket(t, [thread EXCEPT ![t] = Rec("c_conn", "connect", 0)])
    /\ ops' = ops - 1
    /\ emitted' = <<>>
    /\ returned' = <<>>
    /\ UNCHANGED <<connected, reconnect_timer, reconnect_attempts, rigctld_process,
                   socket_lock, calls, outstanding>>
    /\ UNCHANGED setupVars

\* lines 228-231: self.socket.connect() succeeds, self.connected = True
ConnectOk(t) ==
    /\ At(t, "c_conn")
    /\ socket # 0 /\ sock[socket].st = "unconn"
    /\ sock' = [sock EXCEPT ![socket].st = "open"]
    /\ connected' = TRUE
    /\ thread' = Goto(t, "c_done")
    /\ emitted' = <<>>
    /\ returned' = <<>>
    /\ UNCHANGED <<socket, reconnect_timer, reconnect_attempts, rigctld_process,
                   socket_lock, ops, calls, outstanding>>
    /\ UNCHANGED setupVars

\* what the thread's outer method does once connect() has returned True:
\* start_rigctld goes on to line 196, connect and _reconnect return
AfterConnectTrue(t) ==
    IF thread[t].op = "start" THEN [thread[t] EXCEPT !.pc = "s_emit"] ELSE Done(t)

\* line 237 left out
ResetAttemptsKept(n) == n

\* line 237
ResetAttempts(n) == 0

\* lines 234-239: start the _listen thread, reset the attempt counter,
\* return True
ConnectDone(t) ==
    /\ At(t, "c_done") /\ FreeListeners # {}
    /\ reconnect_attempts' = ResetAttempts(reconnect_attempts)
    /\ thread' = [thread EXCEPT ![t] = AfterConnectTrue(t),
                                ![Min(FreeListeners)] = Rec("l_loop", "listen", 0)]
    /\ emitted' = <<>>
    /\ returned' = <<>>
    /\ UNCHANGED <<connected, socket, reconnect_timer, rigctld_process,
                   socket_lock, sock, ops, calls, outstanding>>
    /\ UNCHANGED setupVars

\* ------------------------------------------------- _schedule_reconnect()
\* the guard without its bound on the attempts
CanScheduleUnbounded(attempts, timer) == timer = 0

\* the guard without its test of the Timer
CanScheduleAgain(attempts, timer) == attempts < max_reconnect_attempts

\* lines 289-290: the guard
CanSchedule(attempts, timer) == attempts < max_reconnect_attempts /\ timer = 0

\* the thread's position once _schedule_reconnect() has returned:
\* called from connect() (line 248) connect returns False, to _reconnect
\* (line 307) in a Timer thread and to the caller otherwise; called from
\* _reconnect (line 308) or _listen (line 281) the thread ends
AfterSchedule(t, from) ==
    IF from = "c" /\ t \in Timers
    THEN [thread[t] EXCEPT !.pc = "r_check"]
    ELSE Done(t)

\* lines 289-290 evaluated by thread t, which then stands before line 292
\* (remembering in op where it was called from) or has returned
Guarded(t, from) ==
    IF CanSchedule(reconnect_attempts, reconnect_timer)
    THEN [thread[t] EXCEPT !.pc = "sr_act", !.op = from, !.sk = 0]
    ELSE AfterSchedule(t, from)

\* lines 229, 241-248: self.socket.connect() raises (refused, timed out, or
\* self.socket is meanwhile None or another thread's socket); the handler
\* clears the flag, reports the error and enters _schedule_reconnect
ConnectFail(t) ==
    /\ At(t, "c_conn")
    /\ connected' = FALSE
    /\ emitted' = <<Status("error", 0)>>
    /\ returned' = <<>>
    /\ thread' = [thread EXCEPT ![t] = Guarded(t, "c")]
    /\ UNCHANGED <<socket, reconnect_timer, reconnect_attempts, rigctld_process,
                   socket_lock, sock, ops, calls, outstanding>>
    /\ UNCHANGED setupVars

\* line 292
CountAttempt(n) == n + 1

\* lines 292-297: count the attempt and announce it
ScheduleAct(t) ==
    /\ At(t, "sr_act")
    /\ reconnect_attempts' = CountAttempt(reconnect_attempts)
    /\ emitted' = <<Status("reconnecting", reconnect_attempts')>>
    /\ returned' = <<>>
    /\ thread' = Goto(t, "sr_timer")
    /\ UNCHANGED <<connected, socket, reconnect_timer, rigctld_process, socket_lock,
                   sock, ops, calls, outstanding>>
    /\ UNCHANGED setupVars

\* lines 300-302: create and start the Timer, return
ScheduleTimer(t) ==
    /\ At(t, "sr_timer")
    /\ FreeTimers # {}
    /\ reconnect_timer' = Min(FreeTimers)
    /\ thread' = [thread EXCEPT ![t] = AfterSchedule(t, thread[t].op),
                                ![Min(FreeTimers)] = Rec("pending", "timer", 0)]
    /\ emitted' = <<>>
    /\ returned' = <<>>
    /\ UNCHANGED <<connected, socket, reconnect_attempts, rigctld_process, socket_lock,
                   sock, ops, calls, outstanding>>
    /\ UNCHANGED setupVars

\* ------------------------------------------------------------ _reconnect()
\* the Timer expires: line 306, then connect() lines 218-227
TimerFire(t) ==
    /\ t \in Timers /\ At(t, "pending")
    /\ reconnect_timer' = 0
    /\ OpenSocket(t, Goto(t, "c_conn"))
    /\ emitted' = <<>>
    /\ returned' = <<>>
    /\ UNCHANGED <<connected, reconnect_attempts, rigctld_process,
                   socket_lock, ops, calls, outstanding>>
    /\ UNCHANGED setupVars

\* lines 307-308, after connect() returned False: the second operand of
\* the condition, and the guard of the _schedule_reconnect it calls
ReconnectCheck(t) ==
    /\ At(t, "r_check")
    /\ thread' = [thread EXCEPT ![t] =
                    IF reconnect_attempts < max_reconnect_attempts
                    THEN Guarded(t, "r")
                    ELSE Done(t)]
    /\ emitted' = <<>>
    /\ returned' = <<>>
    /\ UNCHANGED <<sessVars, socket_lock, sock, ops, calls, outstanding>>
    /\ UNCHANGED setupVars

\* ------------------------------------------------------------ _listen()
\* line 255, and line 257 up to the blocking recv on the socket found there
ListenLoop(t) ==
    /\ At(t, "l_loop")
    /\ connected /\ socket # 0
    /\ thread' = [thread EXCEPT ![t] = Rec("l_recv", "listen", socket)]
    /\ emitted' = <<>>
    /\ returned' = <<>>
    /\ UNCHANGED <<sessVars, socket_lock, sock, ops, calls, outstanding>>
    /\ UNCHANGED setupVars

\* line 277: out of the loop (why: "stop" when the socket had been closed
\* and dropped by stop(), else "loss"); a thread that finds the session
\* still marked connected stands before line 278, any other ends
LeaveLoop(t, ev, why) ==
    /\ thread' = [thread EXCEPT ![t] =
                    IF connected THEN Rec("l_lost", why, thread[t].sk) ELSE Free]
    /\ emitted' = ev
    /\ sock' = Collect(sock, socket, thread')

\* why a thread whose socket was closed or dropped leaves the loop
Why == IF socket = 0 THEN "stop" ELSE "loss"

\* lines 278-281, and the guard of lines 289-290: clear the flag, report the
\* loss and enter _schedule_reconnect
ListenLost(t) ==
    /\ At(t, "l_lost")
    /\ connected' = FALSE
    /\ emitted' = <<Status("disconnected", 0)>>
    /\ returned' = <<>>
    /\ thread' = [thread EXCEPT ![t] = Guarded(t, "l")]
    /\ sock' = Collect(sock, socket, thread')
    /\ UNCHANGED <<socket, reconnect_timer, reconnect_attempts, rigctld_process,
                   socket_lock, ops, calls, outstanding>>
    /\ UNCHANGED setupVars

\* line 255 false: the flag was cleared or the socket dropped meanwhile
ListenStop(t) ==
    /\ At(t, "l_loop")
    /\ ~(connected /\ socket # 0)
    /\ LeaveLoop(t, <<>>, Why)
    /\ returned' = <<>>
    /\ UNCHANGED <<sessVars, socket_lock, ops, calls, outstanding>>
    /\ UNCHANGED setupVars

\* lines 268-270: nothing arrived within the socket's timeout; a recv that
\* was blocked when another thread closed the socket may end this way too
ListenTimeout(t) ==
    /\ At(t, "l_recv")
    /\ sock[thread[t].sk].st \in {"open", "closed"}
    /\ sock[thread[t].sk].rx = <<>>
    /\ thread' = [thread EXCEPT ![t] = Rec("l_loop", "listen", 0)]
    /\ sock' = Collect(sock, socket, thread')
    /\ emitted' = <<>>
    /\ returned' = <<>>
    /\ UNCHANGED <<sessVars, socket_lock, ops, calls, outstanding>>
    /\ UNCHANGED setupVars

\* lines 258-260 and 277: recv returns b'', the peer closed the connection
ListenEof(t) ==
    /\ At(t, "l_recv")
    /\ sock[thread[t].sk].st = "eof"
    /\ sock[thread[t].sk].rx = <<>>
    /\ LeaveLoop(t, <<>>, "loss")
    /\ returned' = <<>>
    /\ UNCHANGED <<sessVars, socket_lock, ops, calls, outstanding>>
    /\ UNCHANGED setupVars

\* lines 271-274 and 277: recv raises (the socket was closed or never
\* connected)
ListenError(t) ==
    /\ At(t, "l_recv")
    /\ sock[thread[t].sk].st \in {"closed", "unconn"}
    /\ LeaveLoop(t, <<Debug("Socket error")>>, Why)
    /\ returned' = <<>>
    /\ UNCHANGED <<sessVars, socket_lock, ops, calls, outstanding>>
    /\ UNCHANGED setupVars

\* ------------------------------------------------------------ the daemon
\* rigctld closes a connection (or dies): the socket reads EOF from now on
PeerClose(s) ==
    /\ sock[s].st = "open"
    /\ sock' = [sock EXCEPT ![s].st = "eof", ![s].pend = <<>>]
    /\ emitted' = <<>>
    /\ returned' = <<>>
    /\ UNCHANGED <<sessVars, socket_lock, thread, ops, calls, outstanding>>
    /\ UNCHANGED setupVars

\* ------------------------------------------------------------ start_rigctld()
\* line 173: Popen starts one more process, whatever self.rigctld_process
\* names
Spawned(n) == n + 1

\* lines 663-673: stop() terminates (or kills) the process that
\* self.rigctld_process names, and no other
Reaped(p, n) == IF p = "running" THEN n - 1 ELSE n

\* lines 155-184 with the process alive after the grace period; line 195
\* calls connect().  Here and in CallStartExited the configuration passed
\* is empty: lines 161-163 keep the model and the port and leave no device
CallStart(t) ==
    /\ t \in CallersA /\ At(t, "idle") /\ ops > 0
    /\ ops' = ops - 1
    /\ rigctld_process' = "running"
    /\ thread' = [thread EXCEPT ![t] = Rec("c_open", "start", 0)]
    /\ emitted' = <<>>
    /\ returned' = <<>>
    /\ UNCHANGED <<connected, socket, reconnect_timer, reconnect_attempts,
                   socket_lock, sock, calls, outstanding>>
    /\ args' = CommandLine(binary_path, model, port, device)
    /\ daemons' = Spawned(daemons)
    /\ UNCHANGED settingVars

\* lines 155-192 with the process gone after the grace period
CallStartExited(t) ==
    /\ t \in CallersA /\ At(t, "idle") /\ ops > 0
    /\ ops' = ops - 1
    /\ rigctld_process' = "exited"
    /\ thread' = [thread EXCEPT ![t] = Idle]
    /\ emitted' = <<Status("error", 0)>>
    /\ returned' = <<>>
    /\ UNCHANGED <<connected, socket, reconnect_timer, reconnect_attempts,
                   socket_lock, sock, calls, outstanding>>
    /\ args' = CommandLine(binary_path, model, port, device)
    /\ daemons' = daemons
    /\ UNCHANGED settingVars

\* connect() called from line 195: lines 218-227
StartConnect(t) ==
    /\ At(t, "c_open")
    /\ OpenSocket(t, Goto(t, "c_conn"))
    /\ emitted' = <<>>
    /\ returned' = <<>>
    /\ UNCHANGED <<connected, reconnect_timer, reconnect_attempts, rigctld_process,
                   socket_lock, ops, calls, outstanding>>
    /\ UNCHANGED setupVars

\* lines 195-200: connect() returned True
StartEmit(t) ==
    /\ At(t, "s_emit")
    /\ thread' = [thread EXCEPT ![t] = Idle]
    /\ emitted' = <<Status("connected", 0)>>
    /\ returned' = <<>>
    /\ UNCHANGED <<sessVars, socket_lock, sock, ops, calls, outstanding>>
    /\ UNCHANGED setupVars

\* ------------------------------------------------------------ stop()
\* a caller invokes stop(): lines 655-660
CallStop(t) ==
    /\ t \in CallersA /\ At(t, "idle") /\ ops > 0
    /\ ops' = ops - 1
    /\ socket' = 0
    /\ thread' = [thread EXCEPT ![t] = Rec("st_finish", "stop", 0)]
    /\ sock' = Collect(Close(sock, socket), 0, thread')
    /\ emitted' = <<>>
    /\ returned' = <<>>
    /\ UNCHANGED <<connected, reconnect_timer, reconnect_attempts, rigctld_process,
                   socket_lock, calls, outstanding>>
    /\ UNCHANGED setupVars

\* lines 663-677
StopFinish(t) ==
    /\ At(t, "st_finish")
    /\ rigctld_process' = "none"
    /\ connected' = FALSE
    /\ thread' = [thread EXCEPT ![t] = Idle]
    /\ emitted' = <<Status("disconnected", 0)>>
    /\ returned' = <<>>
    /\ UNCHANGED <<socket, reconnect_timer, reconnect_attempts, socket_lock,
                   sock, ops, calls, outstanding>>
    /\ args' = <<>>
    /\ daemons' = Reaped(rigctld_process, daemons)
    /\ UNCHANGED settingVars

\* ------------------------------------------------------------ the wire
\* what the daemon sends: data lines and the status line that ends a response
Lines == {"data", "RPRT 0", "RPRT -1", "RPRT -5"}
StatusLine(l) == l # "data"
Chunk(r, l) == [req |-> r, line |-> l]
Data(c) == [kind |-> "data", name |-> c.line, n |-> c.req]

\* rigctld answers the oldest request it has read with one more chunk, which
\* ends the response when it is a status line
DaemonSend(s, l) ==
    /\ sock[s].st = "open"
    /\ sock[s].pend # <<>>
    /\ Len(sock[s].rx) < MaxRx
    /\ sock' = [sock EXCEPT ![s].rx = Append(@, Chunk(Head(sock[s].pend), l)),
                            ![s].pend = IF StatusLine(l) THEN Tail(@) ELSE @]
    /\ emitted' = <<>>
    /\ returned' = <<>>
    /\ UNCHANGED <<sessVars, socket_lock, thread, ops, calls, outstanding>>
    /\ UNCHANGED setupVars

\* lines 263-266: the _listen thread reads what arrived and publishes it
ListenData(t) ==
    /\ At(t, "l_recv")
    /\ sock[thread[t].sk].st \in {"open", "eof"}
    /\ sock[thread[t].sk].rx # <<>>
    /\ emitted' = <<Data(Head(sock[thread[t].sk].rx))>>
    /\ thread' = [thread EXCEPT ![t] = Rec("l_loop", "listen", 0)]
    /\ sock' = Collect([sock EXCEPT ![thread[t].sk].rx = Tail(@)], socket, thread')
    /\ returned' = <<>>
    /\ UNCHANGED <<sessVars, socket_lock, ops, calls, outstanding>>
    /\ UNCHANGED setupVars

\* ------------------------------------------------------ execute_command()
Returned(t, c, what, resp) == <<[thread |-> t, cmd |-> c, what |-> what, resp |-> resp]>>

\* line 323 without its test of self.connected
NotConnectedSocketOnly(c, s) == s = 0

\* line 323
NotConnected(c, s) == ~c \/ s = 0

\* line 439 (and 389, 470, 492, 529, 551, 582, 608, 640): the check of a
\* typed operation, made before it calls execute_command
TypedNotConnected(c) == ~c

\* a caller invokes execute_command directly (typed = FALSE) or through a
\* typed operation: the checks of lines 439 and 323
CallExecute(t, typed) ==
    /\ At(t, "idle") /\ calls < MaxCalls
    /\ calls' = calls + 1
    /\ IF (typed /\ TypedNotConnected(connected)) \/ NotConnected(connected, socket)
       THEN /\ returned' = Returned(t, calls', "NotConnected", <<>>)
            /\ thread' = thread
       ELSE /\ returned' = <<>>
            /\ thread' = [thread EXCEPT ![t] =
                            [Rec("x_lock", "exec", 0)
                               EXCEPT !.cmd = calls']]
    /\ emitted' = <<>>
    /\ UNCHANGED <<sessVars, socket_lock, sock, ops, outstanding>>
    /\ UNCHANGED setupVars

\* the lock left as it is when the call ends
Held(l) == l

\* line 327: leaving the with statement, by a return or by an exception,
\* releases the lock
Released(l) == 0

\* the lock taken without waiting for its holder
LockFreeAlways(l) == TRUE

\* line 327: the lock can be taken
LockFree(l) == l = 0

\* lines 327-342: take the lock, write the command whole, wait in recv
ExecSend(t) ==
    /\ At(t, "x_lock") /\ LockFree(socket_lock)
    /\ socket # 0 /\ sock[socket].st \in {"open", "eof"}
    /\ socket_lock' = t
    /\ thread' = [thread EXCEPT ![t].pc = "x_recv", ![t].sk = socket]
    /\ sock' = IF sock[socket].st = "open"
               THEN [sock EXCEPT ![socket].pend = Append(@, thread[t].cmd)]
               ELSE sock
    /\ outstanding' = thread[t].cmd
    /\ emitted' = <<>>
    /\ returned' = <<>>
    /\ UNCHANGED <<sessVars, ops, calls>>
    /\ UNCHANGED setupVars

\* lines 327-334, 360-363: sendall raises (self.socket is None, closed, never
\* connected or reset by the peer); the lock is released on the way out
ExecSendError(t) ==
    /\ At(t, "x_lock") /\ LockFree(socket_lock)
    /\ IF socket = 0 THEN TRUE ELSE sock[socket].st \in {"closed", "unconn", "eof"}
    /\ thread' = [thread EXCEPT ![t] = Idle]
    /\ returned' = Returned(t, thread[t].cmd, "Failed", <<>>)
    /\ emitted' = <<>>
    /\ UNCHANGED <<sessVars, socket_lock, sock, ops, calls, outstanding>>
    /\ UNCHANGED setupVars

\* line 349: the accumulated response ends in a status line the code knows
Complete(resp) ==
    resp # <<>> /\ resp[Len(resp)].line \in {"RPRT 0", "RPRT -1"}

\* the exchange of call c is over for the wire once the call has read the
\* status line of its own response
OwnStatus(c, resp) ==
    resp # <<>> /\ resp[Len(resp)].req = c /\ StatusLine(resp[Len(resp)].line)

\* lines 342-358: recv returns a chunk; the loop ends when the response is
\* complete or the 2 seconds are over, else the next recv is made on the
\* socket self.socket then names
ExecChunk(t, late) ==
    /\ At(t, "x_recv") /\ socket_lock = t
    /\ sock[thread[t].sk].st \in {"open", "eof"}
    /\ sock[thread[t].sk].rx # <<>>
    /\ LET c    == thread[t].cmd
           resp == Append(thread[t].resp, Head(sock[thread[t].sk].rx))
           rest == [sock EXCEPT ![thread[t].sk].rx = Tail(@)]
           over == late \/ Len(resp) >= MaxResp
       IN  /\ IF Complete(resp) \/ over
              THEN /\ thread' = [thread EXCEPT ![t] = Idle]
                   /\ returned' = Returned(t, c, "Response", resp)
                   /\ socket_lock' = Released(socket_lock)
              ELSE IF socket = 0
              THEN /\ thread' = [thread EXCEPT ![t] = Idle]
                   /\ returned' = Returned(t, c, "Failed", <<>>)
                   /\ socket_lock' = Released(socket_lock)
              ELSE /\ thread' = [thread EXCEPT ![t].resp = resp, ![t].sk = socket]
                   /\ returned' = <<>>
                   /\ socket_lock' = socket_lock
           /\ sock' = Collect(rest, socket, thread')
           /\ outstanding' = IF outstanding = c /\ (OwnStatus(c, resp) \/ over
                                                    \/ (~Complete(resp) /\ socket = 0))
                             THEN 0 ELSE outstanding
    /\ emitted' = <<>>
    /\ UNCHANGED <<sessVars, ops, calls>>
    /\ UNCHANGED setupVars

\* the handler sending the command again
ResendAfterError(th) == [th EXCEPT !.pc = "x_lock", !.sk = 0, !.resp = <<>>]

\* lines 360-363: the handler logs the error and raises it to the caller,
\* which ends the call
AfterError(th) == Idle

\* a recv without a timeout, which waits until something arrives
NeverTimesOut(st, rx) == FALSE

\* line 337: the socket has a timeout of 2 seconds, so a recv that finds
\* nothing to read raises socket.timeout (a recv blocked on a socket another
\* thread closed may end this way too)
TimesOut(st, rx) == st \in {"open", "closed"} /\ rx = <<>>

\* lines 342, 360-363: recv raises socket.timeout, nothing arrived in 2 s
ExecTimeout(t) ==
    /\ At(t, "x_recv") /\ socket_lock = t
    /\ TimesOut(sock[thread[t].sk].st, sock[thread[t].sk].rx)
    /\ thread' = [thread EXCEPT ![t] = AfterError(thread[t])]
    /\ returned' = Returned(t, thread[t].cmd, "Timeout", <<>>)
    /\ socket_lock' = Released(socket_lock)
    /\ sock' = Collect(sock, socket, thread')
    /\ outstanding' = IF outstanding = thread[t].cmd THEN 0 ELSE outstanding
    /\ emitted' = <<>>
    /\ UNCHANGED <<sessVars, ops, calls>>
    /\ UNCHANGED setupVars

\* lines 343-344, 356-358: recv returns b'', the loop ends and what was
\* read so far is returned
ExecEof(t) ==
    /\ At(t, "x_recv") /\ socket_lock = t
    /\ sock[thread[t].sk].st = "eof"
    /\ sock[thread[t].sk].rx = <<>>
    /\ thread' = [thread EXCEPT ![t] = Idle]
    /\ returned' = Returned(t, thread[t].cmd, "Response", thread[t].resp)
    /\ socket_lock' = Released(socket_lock)
    /\ sock' = Collect(sock, socket, thread')
    /\ outstanding' = IF outstanding = thread[t].cmd THEN 0 ELSE outstanding
    /\ emitted' = <<>>
    /\ UNCHANGED <<sessVars, ops, calls>>
    /\ UNCHANGED setupVars

\* lines 342, 360-363: recv raises (the socket was closed or replaced by one
\* that is not connected)
ExecError(t) ==
    /\ At(t, "x_recv") /\ socket_lock = t
    /\ sock[thread[t].sk].st \in {"closed", "unconn"}
    /\ thread' = [thread EXCEPT ![t] = AfterError(thread[t])]
    /\ returned' = Returned(t, thread[t].cmd, "Failed", <<>>)
    /\ socket_lock' = Released(socket_lock)
    /\ sock' = Collect(sock, socket, thread')
    /\ outstanding' = IF outstanding = thread[t].cmd THEN 0 ELSE outstanding
    /\ emitted' = <<>>
    /\ UNCHANGED <<sessVars, ops, calls>>
    /\ UNCHANGED setupVars

\* ------------------------------------------------------------ the session
\* the life cycle: start, connect, stop, losses and reconnection
Next ==
    \/ \E t \in Callers : CallConnect(t)
    \/ \E t \in Callers : CallStart(t)
    \/ \E t \in Callers : CallStartExited(t)
    \/ \E t \in Callers : CallStop(t)
    \/ \E t \in Threads : StartConnect(t)
    \/ \E t \in Threads : ConnectOk(t)
    \/ \E t \in Threads : ConnectFail(t)
    \/ \E t \in Threads : ConnectDone(t)
    \/ \E t \in Threads : ScheduleAct(t)
    \/ \E t \in Threads : ScheduleTimer(t)
    \/ \E t \in Threads : TimerFire(t)
    \/ \E t \in Threads : ReconnectCheck(t)
    \/ \E t \in Threads : ListenLoop(t)
    \/ \E t \in Threads : ListenStop(t)
    \/ \E t \in Threads : ListenTimeout(t)
    \/ \E t \in Threads : ListenEof(t)
    \/ \E t \in Threads : ListenError(t)
    \/ \E t \in Threads : ListenLost(t)
    \/ \E t \in Threads : StartEmit(t)
    \/ \E t \in Threads : StopFinish(t)
    \/ \E s \in SockIds : PeerClose(s)

Spec == Init /\ [][Next]_vars

\* ------------------------------------------------------------ commands
\* a session that start_rigctld has started and connected, with its _listen
\* thread running; no further start, connect or stop is called, and the
\* run ends before the Timer of a reconnect expires (2 seconds after a loss)
InitExecWith(n) ==
    /\ connected = TRUE
    /\ socket = 1
    /\ reconnect_timer = 0
    /\ reconnect_attempts = 0
    /\ rigctld_process = "running"
    /\ socket_lock = 0
    /\ sock = [s \in SockIds |-> IF s = 1 THEN SockRec("open") ELSE FreeSock]
    /\ thread = [t \in Threads |->
                   IF t \in Callers THEN Idle
                   ELSE IF t = Min(Listeners) THEN Rec("l_loop", "listen", 0)
                   ELSE IF t \in Listeners THEN Rec("unused", "none", 0)
                   ELSE Free]
    /\ emitted = <<Status("connected", 0)>>
    /\ returned = <<>>
    /\ ops = n
    /\ calls = 0
    /\ outstanding = 0
    /\ args = CommandLine("rigctld", DefaultModel, DefaultPort, "None")
    /\ daemons = 1
    /\ Unconfigured

InitExec == InitExecWith(0)

NextExec ==
    \/ \E t \in Callers, typed \in BOOLEAN : CallExecute(t, typed)
    \/ \E t \in Callers : ExecSend(t)
    \/ \E t \in Callers : ExecSendError(t)
    \/ \E t \in Callers, late \in BOOLEAN : ExecChunk(t, late)
    \/ \E t \in Callers : ExecTimeout(t)
    \/ \E t \in Callers : ExecEof(t)
    \/ \E s \in SockIds, l \in Lines : DaemonSend(s, l)
    \/ \E s \in SockIds : PeerClose(s)
    \/ \E t \in Threads : ListenLoop(t)
    \/ \E t \in Threads : ListenData(t)
    \/ \E t \in Threads : ListenTimeout(t)
    \/ \E t \in Threads : ListenEof(t)
    \/ \E t \in Threads : ListenLost(t)
    \/ \E t \in Threads : ScheduleAct(t)
    \/ \E t \in Threads : ScheduleTimer(t)

SpecExec == InitExec /\ [][NextExec]_vars

\* ------------------------------------------------------------ teardown
\* commands on a connected session that a caller stops or connects again
\* while they run, and that loses its connection and reconnects; rigctld
\* accepts every connection
InitBusy == InitExecWith(MaxOps - 1)

\* the recv of line 342 made by caller t returns or raises
Recv(t) ==
    \/ \E late \in BOOLEAN : ExecChunk(t, late)
    \/ ExecTimeout(t)
    \/ ExecEof(t)
    \/ ExecError(t)

NextBusy ==
    \/ \E t \in Callers \ CallersA : CallExecute(t, FALSE)
    \/ \E t \in Callers : ExecSend(t)
    \/ \E t \in Callers : ExecSendError(t)
    \/ \E t \in Callers : Recv(t)
    \/ \E s \in SockIds, l \in Lines : DaemonSend(s, l)
    \/ \E s \in SockIds : PeerClose(s)
    \/ \E t \in Callers : CallStop(t)
    \/ \E t \in Callers : StopFinish(t)
    \/ \E t \in Callers : CallConnect(t)
    \/ \E t \in Threads : ConnectOk(t)
    \/ \E t \in Threads : ConnectDone(t)
    \/ \E t \in Threads : ScheduleAct(t)
    \/ \E t \in Threads : ScheduleTimer(t)
    \/ \E t \in Threads : TimerFire(t)
    \/ \E t \in Threads : ListenLoop(t)
    \/ \E t \in Threads : ListenData(t)
    \/ \E t \in Threads : ListenStop(t)
    \/ \E t \in Threads : ListenTimeout(t)
    \/ \E t \in Threads : ListenEof(t)
    \/ \E t \in Threads : ListenError(t)
    \/ \E t \in Threads : ListenLost(t)

\* every recv of execute_command has a timeout, so it returns or raises
SpecBusy == InitBusy /\ [][NextBusy]_vars /\ \A t \in Callers : WF_vars(Recv(t))

\* ------------------------------------------------------------ losses
\* a session that is started and connected, and connected again, by
\* callers, while rigctld accepts every connection; the run ends before the
\* Timer of a reconnect expires
InitLoss == InitWith(MaxListeners)

NextLoss ==
    \/ \E t \in Callers : CallStart(t)
    \/ \E t \in Callers : CallConnect(t)
    \/ \E t \in Threads : StartConnect(t)
    \/ \E t \in Threads : ConnectOk(t)
    \/ \E t \in Threads : ConnectDone(t)
    \/ \E t \in Threads : StartEmit(t)
    \/ \E t \in Threads : ListenLoop(t)
    \/ \E t \in Threads : ListenStop(t)
    \/ \E t \in Threads : ListenTimeout(t)
    \/ \E t \in Threads : ListenEof(t)
    \/ \E t \in Threads : ListenError(t)
    \/ \E t \in Threads : ListenLost(t)
    \/ \E t \in Threads : ScheduleAct(t)
    \/ \E t \in Threads : ScheduleTimer(t)
    \/ \E s \in SockIds : PeerClose(s)

SpecLoss == InitLoss /\ [][NextLoss]_vars

\* --------------------------------------------- start_rigctld(config)
\* the configurations start_rigctld is called with: 0 for a key that is not
\* there, "None" for no device
Configs == [model : {0, 2}, device : {"None", "", "/dev/ttyUSB0"}, port : {0, 4533}]

\* what a process that exits at once has written to its standard error
Stderrs == {"", "rig_open: IO error"}

\* config.get(key, default)
Get(v, default) == IF v = 0 THEN default ELSE v

\* lines 161-163
Configure(cfg) ==
    /\ model' = Get(cfg.model, model)
    /\ device' = cfg.device
    /\ port' = Get(cfg.port, port)
    /\ UNCHANGED <<event_callbacks, binary_path, configVars>>

\* the status event of a failed start and its message
StartError(msg, detail) ==
    [kind |-> "status", name |-> "error", n |-> 0, message |-> msg, detail |-> detail]

\* the test of line 155 never true
BinaryNeverMissing(b) == FALSE

\* line 155
BinaryMissing(b) == b \in {"None", ""}

\* lines 155-157: no binary, nothing is done
StartNoBinary(t, cfg) ==
    /\ t \in CallersA /\ At(t, "idle") /\ ops > 0
    /\ BinaryMissing(binary_path)
    /\ ops' = ops - 1
    /\ emitted' = <<StartError("rigctld binary not found", "")>>
    /\ returned' = Returned(t, cfg, "False", <<>>)
    /\ UNCHANGED <<sessVars, socket_lock, sock, thread, calls, outstanding, setupVars>>

\* lines 159-173, 204-208: Popen raises (the path names no executable file)
StartPopenFails(t, cfg) ==
    /\ t \in CallersA /\ At(t, "idle") /\ ops > 0
    /\ ~BinaryMissing(binary_path)
    /\ ops' = ops - 1
    /\ Configure(cfg)
    /\ emitted' = <<StartError("Error starting rigctld", "")>>
    /\ returned' = Returned(t, cfg, "False", <<>>)
    /\ UNCHANGED <<sessVars, socket_lock, sock, thread, calls, outstanding, args, daemons>>

\* going on to line 195 although the process has exited
ConnectAfterExit == Rec("c_open", "start", 0)

\* line 192: return False
AfterExit == Idle

\* lines 159-192: the process has exited when the grace period is over
StartExits(t, cfg, err) ==
    /\ t \in CallersA /\ At(t, "idle") /\ ops > 0
    /\ ~BinaryMissing(binary_path)
    /\ ops' = ops - 1
    /\ Configure(cfg)
    /\ rigctld_process' = "exited"
    /\ args' = CommandLine(binary_path, model', port', device')
    /\ daemons' = daemons
    /\ thread' = [thread EXCEPT ![t] = AfterExit]
    /\ emitted' = <<StartError("rigctld failed to start", err)>>
    /\ returned' = Returned(t, cfg, "False", <<>>)
    /\ UNCHANGED <<connected, socket, reconnect_timer, reconnect_attempts,
                   socket_lock, sock, calls, outstanding>>

\* lines 159-184: the process is alive when the grace period is over; line
\* 195 calls connect()
StartRuns(t, cfg) ==
    /\ t \in CallersA /\ At(t, "idle") /\ ops > 0
    /\ ~BinaryMissing(binary_path)
    /\ ops' = ops - 1
    /\ Configure(cfg)
    /\ rigctld_process' = "running"
    /\ args' = CommandLine(binary_path, model', port', device')
    /\ daemons' = Spawned(daemons)
    /\ thread' = [thread EXCEPT ![t] = Rec("c_open", "start", 0)]
    /\ emitted' = <<>>
    /\ returned' = <<>>
    /\ UNCHANGED <<connected, socket, reconnect_timer, reconnect_attempts,
                   socket_lock, sock, calls, outstanding>>

\* a manager whose constructor has or has not found rigctld
InitStart == Constructed(MaxListeners) /\ \E b \in {"None", "rigctld"} : Settings(b)

\* start_rigctld called with every configuration, rigctld keeping the
\* connections it has accepted; the runs end before a Timer expires
NextStart ==
    \/ \E t \in Callers, cfg \in Configs : StartNoBinary(t, cfg)
    \/ \E t \in Callers, cfg \in Configs : StartPopenFails(t, cfg)
    \/ \E t \in Callers, cfg \in Configs, err \in Stderrs : StartExits(t, cfg, err)
    \/ \E t \in Callers, cfg \in Configs : StartRuns(t, cfg)
    \/ \E t \in Callers : StartConnect(t)
    \/ \E t \in Callers : ConnectOk(t)
    \/ \E t \in Callers : ConnectFail(t)
    \/ \E t \in Callers : ConnectDone(t)
    \/ \E t \in Callers : StartEmit(t)
    \/ \E t \in Callers : ScheduleAct(t)
    \/ \E t \in Callers : ScheduleTimer(t)
    \/ \E t \in Listeners : ListenLoop(t)
    \/ \E t \in Listeners : ListenTimeout(t)

SpecStart == InitStart /\ [][NextStart]_vars

\* ------------------------------------------------------------ on(), emit()
\* a handler is a callable; what matters of it is whether calling it raises
\* (an Exception, as a failing handler does)
Handlers == [id : 1..MaxHandlers, raises : BOOLEAN]

\* the names on() and emit() are called with: the three kinds, and one that
\* is none of them
EventNames == Kinds \cup {"other"}
Registered == Len(event_callbacks["status"]) + Len(event_callbacks["data"])
              + Len(event_callbacks["debug"])

\* lines 127-128: on() appends the handler to the list of a known kind
On(t, k, h) ==
    /\ At(t, "idle")
    /\ Registered < MaxRegistered
    /\ event_callbacks' = IF k \in DOMAIN event_callbacks
                          THEN [event_callbacks EXCEPT ![k] = Append(@, h)]
                          ELSE event_callbacks
    /\ emitted' = <<>>
    /\ returned' = <<>>
    /\ UNCHANGED <<sessVars, socket_lock, sock, thread, ops, calls, outstanding,
                   binary_path, model, device, port, args, daemons, configVars>>

\* emit() is called: line 138; a name that is no kind has nobody to tell.
\* The thread keeps in cmd how many handlers the loop has passed and in resp
\* the handlers it has called
CallEmit(t, k) ==
    /\ At(t, "idle")
    /\ IF k \in DOMAIN event_callbacks
       THEN /\ thread' = [thread EXCEPT ![t] = Rec("e_loop", k, 0)]
            /\ returned' = <<>>
       ELSE /\ thread' = thread
            /\ returned' = Returned(t, k, "Emitted", <<>>)
    /\ emitted' = <<>>
    /\ UNCHANGED <<sessVars, socket_lock, sock, ops, calls, outstanding, setupVars>>

\* line 139: the handler the loop takes after passing i of the list
ReversedCallback(list, i) == list[Len(list) - i]

Callback(list, i) == list[i + 1]

\* lines 142-143: the except clause around the call of a handler
NotCaught(h) == FALSE

Caught(h) == TRUE

\* lines 139-143: the loop takes the next handler and calls it; what the
\* handler raises is caught and logged, and the loop goes on
EmitCall(t) ==
    /\ At(t, "e_loop")
    /\ thread[t].cmd < Len(event_callbacks[thread[t].op])
    /\ LET h == Callback(event_callbacks[thread[t].op], thread[t].cmd)
           called == Append(thread[t].resp, h)
       IN  IF h.raises /\ ~Caught(h)
           THEN /\ thread' = [thread EXCEPT ![t] = Idle]
                /\ returned' = Returned(t, thread[t].op, "Raised", called)
           ELSE /\ thread' = [thread EXCEPT ![t].cmd = @ + 1, ![t].resp = called]
                /\ returned' = <<>>
    /\ emitted' = <<>>
    /\ UNCHANGED <<sessVars, socket_lock, sock, ops, calls, outstanding, setupVars>>

\* line 139: the list is exhausted, emit() returns
EmitReturn(t) ==
    /\ At(t, "e_loop")
    /\ thread[t].cmd >= Len(event_callbacks[thread[t].op])
    /\ thread' = [thread EXCEPT ![t] = Idle]
    /\ returned' = Returned(t, thread[t].op, "Emitted", thread[t].resp)
    /\ emitted' = <<>>
    /\ UNCHANGED <<sessVars, socket_lock, sock, ops, calls, outstanding, setupVars>>

\* handlers being registered while events are emitted
NextEmit ==
    \/ \E t \in Callers, k \in EventNames, h \in Handlers : On(t, k, h)
    \/ \E t \in Callers, k \in EventNames : CallEmit(t, k)
    \/ \E t \in Callers : EmitCall(t)
    \/ \E t \in Callers : EmitReturn(t)

SpecEmit == Init /\ [][NextEmit]_vars

\* ------------------------------------------------------------ text
\* the command and the response as text: the characters of a command, of a
\* data line and of the white space around them
Chars == {"f", " ", "\n"}
Texts == UNION {[1..n -> Chars] : n \in 0..MaxText}

\* str.encode('utf-8') and bytes.decode('utf-8') on these characters
Code(ch) == CASE ch = "f" -> 102 [] ch = " " -> 32 [] ch = "\n" -> 10
Encode(s) == [i \in DOMAIN s |-> Code(s[i])]
Char(b) == CHOOSE ch \in Chars : Code(ch) = b
Decode(bs) == [i \in DOMAIN bs |-> Char(bs[i])]

\* line 329: command.endswith('\n')
EndsWithNewline(s) == s # <<>> /\ s[Len(s)] = "\n"

\* the terminator appended whatever the command ends with
AlwaysNewline(s) == Append(s, "\n")

\* lines 329-330
WithNewline(s) == IF EndsWithNewline(s) THEN s ELSE Append(s, "\n")

\* str.strip(): the white space str.strip() removes, and what it leaves
Whitespace == {" ", "\n"}
RECURSIVE LStrip(_)
LStrip(s) == IF s # <<>> /\ Head(s) \in Whitespace THEN LStrip(Tail(s)) ELSE s
RECURSIVE RStrip(_)
RStrip(s) ==
    IF s # <<>> /\ s[Len(s)] \in Whitespace THEN RStrip(SubSeq(s, 1, Len(s) - 1)) ELSE s
Strip(s) == RStrip(LStrip(s))

\* a caller invokes execute_command(c) on the connected session: line 323
TextCall(t, c) ==
    /\ t \in CallersA /\ At(t, "idle") /\ calls < MaxCalls
    /\ ~NotConnected(connected, socket)
    /\ calls' = calls + 1
    /\ thread' = [thread EXCEPT ![t] = [Rec("x_lock", "exec", 0) EXCEPT !.cmd = c]]
    /\ emitted' = <<>>
    /\ returned' = <<>>
    /\ UNCHANGED <<sessVars, socket_lock, sock, ops, outstanding>>
    /\ UNCHANGED setupVars

\* lines 327-339: take the lock, complete the command, encode and write it
TextSend(t) ==
    /\ At(t, "x_lock") /\ LockFree(socket_lock)
    /\ socket # 0 /\ sock[socket].st = "open"
    /\ socket_lock' = t
    /\ thread' = [thread EXCEPT ![t].pc = "x_recv", ![t].sk = socket]
    /\ sock' = [sock EXCEPT ![socket].pend = Append(@, Encode(WithNewline(thread[t].cmd)))]
    /\ emitted' = <<>>
    /\ returned' = <<>>
    /\ UNCHANGED <<sessVars, ops, calls, outstanding>>
    /\ UNCHANGED setupVars

\* rigctld reads the command and sends some bytes of its response
TextReply(s, r) ==
    /\ sock[s].st = "open"
    /\ sock[s].rx = <<>>
    /\ r # <<>>
    /\ \E t \in Callers : /\ At(t, "x_recv") /\ thread[t].sk = s
                          /\ Len(thread[t].resp) + Len(r) <= MaxText
    /\ sock' = [sock EXCEPT ![s].rx = <<Encode(r)>>, ![s].pend = <<>>]
    /\ emitted' = <<>>
    /\ returned' = <<>>
    /\ UNCHANGED <<sessVars, socket_lock, thread, ops, calls, outstanding>>
    /\ UNCHANGED setupVars

\* lines 342-354: recv returns a chunk, which is added to the response; the
\* loop ends (done: by line 350 or 354) or the next recv is made
TextRecv(t, done) ==
    /\ At(t, "x_recv") /\ socket_lock = t
    /\ sock[thread[t].sk].rx # <<>>
    /\ thread' = [thread EXCEPT ![t].resp = @ \o Head(sock[thread[t].sk].rx),
                                ![t].pc = IF done THEN "x_ret" ELSE "x_recv"]
    /\ sock' = [sock EXCEPT ![thread[t].sk].rx = Tail(@)]
    /\ emitted' = <<>>
    /\ returned' = <<>>
    /\ UNCHANGED <<sessVars, socket_lock, ops, calls, outstanding>>
    /\ UNCHANGED setupVars

\* lines 342, 360-363: nothing more arrives, recv raises socket.timeout
TextTimeout(t) ==
    /\ At(t, "x_recv") /\ socket_lock = t
    /\ sock[thread[t].sk].rx = <<>>
    /\ thread' = [thread EXCEPT ![t] = Idle]
    /\ returned' = Returned(t, thread[t].cmd, "Timeout", <<>>)
    /\ socket_lock' = Released(socket_lock)
    /\ emitted' = <<>>
    /\ UNCHANGED <<sessVars, sock, ops, calls, outstanding>>
    /\ UNCHANGED setupVars

\* lines 356-358: decode the response, strip it, return it
TextReturn(t) ==
    /\ At(t, "x_ret") /\ socket_lock = t
    /\ thread' = [thread EXCEPT ![t] = Idle]
    /\ returned' = Returned(t, thread[t].cmd, "Response", Strip(Decode(thread[t].resp)))
    /\ socket_lock' = Released(socket_lock)
    /\ emitted' = <<>>
    /\ UNCHANGED <<sessVars, sock, ops, calls, outstanding>>
    /\ UNCHANGED setupVars

NextText ==
    \/ \E t \in Callers, c \in Texts : TextCall(t, c)
    \/ \E t \in Callers : TextSend(t)
    \/ \E s \in SockIds, r \in Texts : TextReply(s, r)
    \/ \E t \in Callers, done \in BOOLEAN : TextRecv(t, done)
    \/ \E t \in Callers : TextTimeout(t)
    \/ \E t \in Callers : TextReturn(t)

\* the connected session of InitExec, its commands and responses as text
SpecText == InitExec /\ [][NextText]_vars

\* ------------------------------------------------------------ typed operations
\* the text rigctld answers a command with: data made of these characters,
\* then a newline and a status line, or no status line at all; RPRT stands
\* for its four letters
BodyChars == {"U", "0", "1", " ", "\n"}
Bodies == UNION {[1..n -> BodyChars] : n \in 0..MaxBody}
StatusTexts == {<<>>,
                <<"\n", "RPRT", " ", "0", "\n">>,
                <<"\n", "RPRT", " ", "-", "1", "\n">>,
                <<"\n", "RPRT", " ", "-", "5", "\n">>}
Answers == {b \o st : b \in Bodies, st \in StatusTexts} \ {<<>>}

\* the typed operations and their arguments (0 where there is none); the
\* mode set is USB, the levels are STRENGTH and AF
TypedCalls == [op : {"get_freq", "get_mode", "get_ptt", "get_level"}, arg : {0}]
              \cup [op : {"set_freq", "set_level"}, arg : {14}]
              \cup [op : {"set_mode"}, arg : {0}]
              \cup [op : {"set_ptt"}, arg : {0, 1}]
Sets == {"set_freq", "set_mode", "set_ptt", "set_level"}

\* str() of a float that is a whole number
FloatStr(f) == Str(f) \o <<".", "0">>

\* lines 442, 474, 494, 532, 553, 583, 611, 643: the command of each operation
Command(c) ==
    CASE c.op = "get_freq"  -> <<"\\get_freq">>
      [] c.op = "set_freq"  -> <<"\\set_freq", " ">> \o FloatStr(c.arg)
      [] c.op = "get_mode"  -> <<"\\get_mode">>
      [] c.op = "set_mode"  -> <<"\\set_mode", " ", "USB", " ">> \o Str(c.arg)
      [] c.op = "get_ptt"   -> <<"\\get_ptt">>
      [] c.op = "set_ptt"   -> <<"\\set_ptt", " ">> \o Str(IF c.arg # 0 THEN 1 ELSE 0)
      [] c.op = "get_level" -> <<"\\get_level", " ", "STRENGTH">>
      [] c.op = "set_level" -> <<"\\set_level", " ", "AF", " ">> \o FloatStr(c.arg)

\* p in r, r.endswith(p)
Contains(r, p) == \E i \in 1..(Len(r) - Len(p) + 1) : SubSeq(r, i, i + Len(p) - 1) = p
EndsWith(r, p) == Len(r) >= Len(p) /\ SubSeq(r, Len(r) - Len(p) + 1, Len(r)) = p

\* line 349: the response read so far ends in one of the two status lines
Terminated(text) ==
    \/ EndsWith(Strip(text), <<"RPRT", " ", "0">>)
    \/ EndsWith(Strip(text), <<"RPRT", " ", "-", "1">>)

\* any status line taken for success
HasRprt(r) == Contains(r, <<"RPRT">>)

\* 'RPRT 0' in response
HasOk(r) == Contains(r, <<"RPRT", " ", "0">>)

\* the whole response taken for its first line
WholeText(s) == s

\* response.split('\n')[0]
RECURSIVE FirstLine(_)
FirstLine(s) == IF s = <<>> \/ Head(s) = "\n" THEN <<>> ELSE <<Head(s)>> \o FirstLine(Tail(s))

\* the line taken for one word
NoSplit(s) == <<s>>

\* str.split(): the words between the runs of white space
RECURSIVE Word(_)
Word(s) == IF s = <<>> \/ Head(s) \in Whitespace THEN <<>> ELSE <<Head(s)>> \o Word(Tail(s))
RECURSIVE Split(_)
Split(s) == LET u == LStrip(s)
            IN  IF u = <<>> THEN <<>>
                ELSE <<Word(u)>> \o Split(SubSeq(u, Len(Word(u)) + 1, Len(u)))

\* int() and float() of a text without white space around it: whether they
\* accept it, and the number
IsDigit(ch) == \E d \in 1..10 : DigitChars[d] = ch
DigitValue(ch) == (CHOOSE d \in 1..10 : DigitChars[d] = ch) - 1
Unsigned(w) == IF w # <<>> /\ Head(w) = "-" THEN Tail(w) ELSE w
RECURSIVE Natural(_)
Natural(w) == IF w = <<>> THEN 0
              ELSE 10 * Natural(SubSeq(w, 1, Len(w) - 1)) + DigitValue(w[Len(w)])
IsInt(w) == Unsigned(w) # <<>> /\ \A i \in DOMAIN Unsigned(w) : IsDigit(Unsigned(w)[i])
IntOf(w) == IF Head(w) = "-" THEN 0 - Natural(Unsigned(w)) ELSE Natural(w)

Points(w) == {i \in DOMAIN w : w[i] = "."}
IsFloat(w) ==
    LET u == Unsigned(w)
    IN  /\ Cardinality(Points(u)) <= 1
        /\ \E i \in DOMAIN u : IsDigit(u[i])
        /\ \A i \in DOMAIN u : IsDigit(u[i]) \/ u[i] = "."
RECURSIVE NoTrailingZeros(_)
NoTrailingZeros(w) ==
    IF w # <<>> /\ w[Len(w)] = "0" THEN NoTrailingZeros(SubSeq(w, 1, Len(w) - 1)) ELSE w
\* the float as its whole part and the digits of its fraction
FloatOf(w) ==
    LET u == Unsigned(w)
        p == IF Points(u) = {} THEN Len(u) + 1 ELSE CHOOSE i \in Points(u) : TRUE
        whole == Natural(SubSeq(u, 1, p - 1))
        frac == NoTrailingZeros(SubSeq(u, p + 1, Len(u)))
    IN  [whole |-> IF Head(w) = "-" THEN 0 - whole ELSE whole, frac |-> frac]

\* what an operation returns or raises; the message of the exception raised
\* for a response without RPRT 0 holds the response
Value(v) == [what |-> "Value", resp |-> v]
Raises == [what |-> "Raised", resp |-> <<>>]
Failed(r) == [what |-> "Raised", resp |-> r]

\* true for 1 only
PressedIfOne(n) == n = 1

\* line 556: ptt != 0
Pressed(n) == n # 0

\* lines 444-455, 613-624: get_frequency and get_level
ParseFloat(r) ==
    IF ~HasOk(r) THEN Failed(r)
    ELSE IF IsFloat(Strip(FirstLine(r))) THEN Value(FloatOf(Strip(FirstLine(r)))) ELSE Raises

\* lines 496-513: get_mode
ParseMode(r) ==
    LET mode_parts == Split(Strip(FirstLine(r)))
    IN  IF ~HasOk(r) THEN Failed(r)
        ELSE IF mode_parts = <<>> THEN Raises
        ELSE IF Len(mode_parts) > 1
             THEN IF IsInt(mode_parts[2])
                  THEN Value([mode |-> mode_parts[1], passband |-> IntOf(mode_parts[2])])
                  ELSE Raises
             ELSE Value([mode |-> mode_parts[1], passband |-> 0])

\* lines 555-567: get_ptt
ParsePtt(r) ==
    IF ~HasOk(r) THEN Failed(r)
    ELSE IF IsInt(Strip(FirstLine(r))) THEN Value(Pressed(IntOf(Strip(FirstLine(r))))) ELSE Raises

\* lines 476-480, 534-539, 585-593, 645-650: the set operations
ParseSet(r) == IF HasOk(r) THEN Value(TRUE) ELSE Failed(r)

\* what operation op makes of the response r of execute_command
Result(op, r) ==
    CASE op \in {"get_freq", "get_level"} -> ParseFloat(r)
      [] op = "get_mode" -> ParseMode(r)
      [] op = "get_ptt" -> ParsePtt(r)
      [] op \in Sets -> ParseSet(r)

\* a typed operation is called on the connected session and calls
\* execute_command, which takes the lock and writes the command: lines
\* 439-442 (and the like), 323-339; rigctld has the command
TypedCall(t, c) ==
    /\ t \in CallersA /\ At(t, "idle") /\ calls < MaxTyped
    /\ ~TypedNotConnected(connected) /\ ~NotConnected(connected, socket)
    /\ LockFree(socket_lock)
    /\ sock[socket].st = "open"
    /\ calls' = calls + 1
    /\ socket_lock' = t
    /\ thread' = [thread EXCEPT ![t] = [Rec("t_recv", c.op, socket) EXCEPT !.cmd = c]]
    /\ sock' = [sock EXCEPT ![socket].pend = Append(@, WithNewline(Command(c)))]
    /\ emitted' = <<>>
    /\ returned' = <<>>
    /\ UNCHANGED <<sessVars, ops, outstanding, setupVars>>

\* where a caller waits for the answer to its command: in a get or set
\* operation, and in get_info after \dump_state, \get_freq and \get_mode
Reading == {"t_recv", "i_dump", "i_freq", "i_mode"}

\* rigctld answers the command
TypedAnswer(s, text) ==
    /\ sock[s].st = "open" /\ sock[s].rx = <<>>
    /\ \E t \in Callers : thread[t].pc \in Reading /\ thread[t].sk = s
    /\ sock' = [sock EXCEPT ![s].rx = <<text>>]
    /\ emitted' = <<>>
    /\ returned' = <<>>
    /\ UNCHANGED <<sessVars, socket_lock, thread, ops, calls, outstanding, setupVars>>

\* lines 341-363 and the rest of the operation: the answer is read.  When it
\* ends in RPRT 0 or RPRT -1 execute_command returns it stripped; when not,
\* the next recv times out and the exception passes through the operation,
\* unless the answer came so late that line 353 ends the loop
TypedReturn(t, late) ==
    /\ At(t, "t_recv") /\ socket_lock = t
    /\ sock[thread[t].sk].rx # <<>>
    /\ Terminated(Head(sock[thread[t].sk].rx)) => ~late
    /\ LET text == Head(sock[thread[t].sk].rx)
           res == IF Terminated(text) \/ late THEN Result(thread[t].op, Strip(text))
                  ELSE Raises
       IN  returned' = Returned(t, thread[t].cmd, res.what, res.resp)
    /\ sock' = [sock EXCEPT ![thread[t].sk].rx = Tail(@)]
    /\ thread' = [thread EXCEPT ![t] = Idle]
    /\ socket_lock' = Released(socket_lock)
    /\ emitted' = <<>>
    /\ UNCHANGED <<sessVars, ops, calls, outstanding, setupVars>>

\* lines 342, 360-363: rigctld does not answer, recv raises socket.timeout
TypedTimeout(t) ==
    /\ At(t, "t_recv") /\ socket_lock = t
    /\ sock[thread[t].sk].rx = <<>>
    /\ returned' = Returned(t, thread[t].cmd, "Raised", <<>>)
    /\ thread' = [thread EXCEPT ![t] = Idle]
    /\ socket_lock' = Released(socket_lock)
    /\ emitted' = <<>>
    /\ UNCHANGED <<sessVars, sock, ops, calls, outstanding, setupVars>>

\* the typed operations called one after the other on a connected session
\* whose rigctld answers with any text
NextTyped ==
    \/ \E t \in Callers, c \in TypedCalls : TypedCall(t, c)
    \/ \E s \in SockIds, text \in Answers : TypedAnswer(s, text)
    \/ \E t \in Callers, late \in BOOLEAN : TypedReturn(t, late)
    \/ \E t \in Callers : TypedTimeout(t)

SpecTyped == InitExec /\ [][NextTyped]_vars

\* ------------------------------------------------------------ get_info()
\* what execute_command makes of the answer: lines 341-363, as in TypedReturn
Executed(text, late) == IF Terminated(text) \/ late THEN Value(Strip(text)) ELSE Raises

\* lines 397-400
Identity == [model |-> model, device |-> device]

\* lines 403-409: the frequency is added when the response holds RPRT 0 and
\* its first line is a number; an exception is logged and nothing is added
WithFrequency(info, out) ==
    IF out.what = "Value" /\ HasOk(out.resp) /\ IsFloat(Strip(FirstLine(out.resp)))
    THEN info @@ ("frequency" :> FloatOf(Strip(FirstLine(out.resp))))
    ELSE info

\* lines 412-420: the mode is added, and then the passband when there is a
\* second word; an exception (no word, a passband that is no integer) is
\* logged and what was added before it stays
WithMode(info, out) ==
    LET mode_parts == Split(Strip(FirstLine(out.resp)))
    IN  IF out.what = "Value" /\ HasOk(out.resp) /\ mode_parts # <<>>
        THEN IF Len(mode_parts) > 1 /\ IsInt(mode_parts[2])
             THEN info @@ ("mode" :> mode_parts[1]) @@ ("passband" :> IntOf(mode_parts[2]))
             ELSE info @@ ("mode" :> mode_parts[1])
        ELSE info

\* the sub-query that follows each sub-query, and its command
Following(pc) == IF pc = "i_dump" THEN "i_freq" ELSE "i_mode"
Query(pc) == CASE pc = "i_dump" -> <<"\\dump_state">>
               [] pc = "i_freq" -> <<"\\get_freq">>
               [] pc = "i_mode" -> <<"\\get_mode">>

\* lines 389-394: get_info is called on the connected session and sends
\* \dump_state
InfoCall(t) ==
    /\ t \in CallersA /\ At(t, "idle") /\ calls < MaxTyped
    /\ ~TypedNotConnected(connected) /\ ~NotConnected(connected, socket)
    /\ LockFree(socket_lock)
    /\ sock[socket].st = "open"
    /\ calls' = calls + 1
    /\ socket_lock' = t
    /\ thread' = [thread EXCEPT ![t] = Rec("i_dump", "get_info", socket)]
    /\ sock' = [sock EXCEPT ![socket].pend = Append(@, WithNewline(Query("i_dump")))]
    /\ emitted' = <<>>
    /\ returned' = <<>>
    /\ UNCHANGED <<sessVars, ops, outstanding, setupVars>>

\* what get_info does with the outcome `out` of the sub-query it waits for:
\* an exception of \dump_state leaves through lines 424-427; after the two
\* others the next command is sent, or the information returned (line 422)
InfoGoesOn(t, out, rx) ==
    LET pc == thread[t].pc
        info == CASE pc = "i_dump" -> Identity
                  [] pc = "i_freq" -> WithFrequency(thread[t].resp, out)
                  [] pc = "i_mode" -> WithMode(thread[t].resp, out)
    IN  IF pc = "i_dump" /\ out.what = "Raised"
        THEN /\ thread' = [thread EXCEPT ![t] = Idle]
             /\ returned' = Returned(t, "get_info", "Raised", <<>>)
             /\ socket_lock' = Released(socket_lock)
             /\ sock' = [sock EXCEPT ![thread[t].sk].rx = rx]
        ELSE IF pc = "i_mode"
        THEN /\ thread' = [thread EXCEPT ![t] = Idle]
             /\ returned' = Returned(t, "get_info", "Value", info)
             /\ socket_lock' = Released(socket_lock)
             /\ sock' = [sock EXCEPT ![thread[t].sk].rx = rx]
        ELSE /\ thread' = [thread EXCEPT ![t].pc = Following(pc), ![t].resp = info]
             /\ returned' = <<>>
             /\ socket_lock' = t
             /\ sock' = [sock EXCEPT ![thread[t].sk].rx = rx,
                                     ![thread[t].sk].pend =
                                         Append(@, WithNewline(Query(Following(pc))))]

\* the answer to a sub-query is read
InfoAnswered(t, late) ==
    /\ thread[t].pc \in Reading \ {"t_recv"} /\ socket_lock = t
    /\ sock[thread[t].sk].rx # <<>>
    /\ Terminated(Head(sock[thread[t].sk].rx)) => ~late
    /\ InfoGoesOn(t, Executed(Head(sock[thread[t].sk].rx), late), Tail(sock[thread[t].sk].rx))
    /\ emitted' = <<>>
    /\ UNCHANGED <<sessVars, ops, calls, outstanding, setupVars>>

\* rigctld does not answer a sub-query: execute_command raises
InfoTimeout(t) ==
    /\ thread[t].pc \in Reading \ {"t_recv"} /\ socket_lock = t
    /\ sock[thread[t].sk].rx = <<>>
    /\ InfoGoesOn(t, Raises, <<>>)
    /\ emitted' = <<>>
    /\ UNCHANGED <<sessVars, ops, calls, outstanding, setupVars>>

\* get_info called on a connected session whose rigctld answers with any text
NextInfo ==
    \/ \E t \in Callers : InfoCall(t)
    \/ \E s \in SockIds, text \in Answers : TypedAnswer(s, text)
    \/ \E t \in Callers, late \in BOOLEAN : InfoAnswered(t, late)
    \/ \E t \in Callers : InfoTimeout(t)

SpecInfo == InitExec /\ [][NextInfo]_vars

\* ------------------------------------------------------------ configuration
\* load_config of config.py and of utils.py, update_config of config.py.
\* A dictionary is a function from its keys; the dictionaries of the
\* sections of DEFAULT_CONFIG are objects every shallow copy of it shares,
\* so a section of the dictionary a caller holds is either that shared
\* object or a dictionary of its own
FileSections == {"server", "hamlib", "plugins"}

\* the values a file gives to the keys it has
FileValues == [server  |-> [port |-> 9090],
               hamlib  |-> [model |-> 3073, baud |-> 9600],
               plugins |-> [dir |-> 7]]

Restrict(d, K) == [k \in K |-> d[k]]
DictsOf(s) == {Restrict(FileValues[s], K) : K \in SUBSET DOMAIN FileValues[s]}

\* what json.load reads from a configuration file: some of the sections,
\* each with some of its keys
JsonFiles ==
    UNION {{f \in [S -> UNION {DictsOf(s) : s \in S}] : \A s \in S : f[s] \in DictsOf(s)}
              : S \in SUBSET FileSections}

\* dict.update
Update(d, u) == [k \in DOMAIN d \cup DOMAIN u |-> IF k \in DOMAIN u THEN u[k] ELSE d[k]]

Shared   == [shared |-> TRUE, own |-> <<>>]
Own(d)   == [shared |-> FALSE, own |-> d]

\* the dictionary cfg by value, the sections of the defaults being dflt
Deref(cfg, dflt) == [s \in DOMAIN cfg |-> IF cfg[s].shared THEN dflt[s] ELSE cfg[s].own]

\* DEFAULT_CONFIG.copy(), line 79: a new dictionary of the same section objects
ShallowCopy == [s \in DOMAIN DEFAULT_CONFIG |-> Shared]

\* lines 87-91 and 147-151 of config.py: what the merge of user into cfg
\* leaves in the sections of DEFAULT_CONFIG ...
MergedDefaults(cfg, user) ==
    [s \in DOMAIN DEFAULT_CONFIG |->
        IF s \in DOMAIN user /\ s \in DOMAIN cfg /\ cfg[s].shared
        THEN Update(DEFAULT_CONFIG[s], user[s])
        ELSE DEFAULT_CONFIG[s]]

\* ... and in cfg itself
MergedConfig(cfg, user) ==
    [s \in DOMAIN cfg \cup DOMAIN user |->
        IF s \notin DOMAIN cfg THEN Own(user[s])
        ELSE IF s \in DOMAIN user /\ ~cfg[s].shared THEN Own(Update(cfg[s].own, user[s]))
        ELSE cfg[s]]

\* what the file at the path gives to json.load, nothing when there is none
Content(f) == IF f.exists THEN f.content ELSE <<>>

\* the user (or the wizard) writes the configuration file, or removes it
EditFile(t, f) ==
    /\ At(t, "idle")
    /\ config_file' = f
    /\ emitted' = <<>>
    /\ returned' = <<>>
    /\ UNCHANGED <<sessVars, socket_lock, sock, thread, ops, calls, outstanding, args, daemons,
                   event_callbacks, binary_path, model, device, port, DEFAULT_CONFIG, config>>

\* config.load_config(path), lines 75-101
LoadConfig(t) ==
    /\ At(t, "idle")
    /\ DEFAULT_CONFIG' = MergedDefaults(ShallowCopy, Content(config_file))
    /\ config' = MergedConfig(ShallowCopy, Content(config_file))
    /\ returned' = Returned(t, "config", "Config", Deref(config', DEFAULT_CONFIG'))
    /\ emitted' = <<>>
    /\ UNCHANGED <<sessVars, socket_lock, sock, thread, ops, calls, outstanding, args, daemons,
                   event_callbacks, binary_path, model, device, port, config_file>>

\* utils.load_config(path), lines 243-293: the defaults are built anew in
\* every call, and a section the defaults do not have is left out (line 282)
UtilsLoadConfig(t) ==
    /\ At(t, "idle")
    /\ config' = [s \in DOMAIN BuiltIn |->
                    IF s \in DOMAIN Content(config_file)
                    THEN Own(Update(BuiltIn[s], Content(config_file)[s]))
                    ELSE Own(BuiltIn[s])]
    /\ returned' = Returned(t, "utils", "Config", Deref(config', DEFAULT_CONFIG))
    /\ emitted' = <<>>
    /\ UNCHANGED <<sessVars, socket_lock, sock, thread, ops, calls, outstanding, args, daemons,
                   event_callbacks, binary_path, model, device, port, DEFAULT_CONFIG,
                   config_file>>

\* config.update_config(config, updates, path), lines 147-156, on the
\* dictionary the caller got from load_config; save_config writes it to the
\* configuration file (saved) or to another path, or fails
UpdateConfig(t, updates, saved) ==
    /\ At(t, "idle")
    /\ config # <<>>
    /\ DEFAULT_CONFIG' = MergedDefaults(config, updates)
    /\ config' = MergedConfig(config, updates)
    /\ config_file' = IF saved
                      THEN [exists |-> TRUE, content |-> Deref(config', DEFAULT_CONFIG')]
                      ELSE config_file
    /\ returned' = Returned(t, "config", "Updated", Deref(config', DEFAULT_CONFIG'))
    /\ emitted' = <<>>
    /\ UNCHANGED <<sessVars, socket_lock, sock, thread, ops, calls, outstanding, args, daemons,
                   event_callbacks, binary_path, model, device, port>>

\* the files a path can name
Files == {Missing} \cup {[exists |-> TRUE, content |-> f] : f \in JsonFiles}

\* a process that loads and updates its configuration, the file changing
\* in between
NextConfig ==
    \/ \E t \in CallersA, f \in Files : EditFile(t, f)
    \/ \E t \in CallersA : LoadConfig(t)
    \/ \E t \in CallersA : UtilsLoadConfig(t)
    \/ \E t \in CallersA, u \in JsonFiles, saved \in BOOLEAN : UpdateConfig(t, u, saved)

SpecConfig == Init /\ [][NextConfig]_vars

\* ------------------------------------------------------------ retries
\* a connected session that loses its connection and reconnects by itself,
\* no caller taking part before the attempts have ended.  The Timer of an attempt expires reconnect_delay
\* (2 seconds, line 49) after it was started, when the thread that started
\* it has long evaluated line 307 and returned
Returned307 == \A u \in Timers : thread[u].pc # "r_check"

\* the Timer expires: _reconnect, lines 306-307, and connect() lines 218-227
TimerExpires(t) == Returned307 /\ TimerFire(t)

\* a caller asks for a connection once the automatic attempts have ended
\* without one
Retry(t) ==
    /\ ~connected
    /\ \A u \in Threads : thread[u].pc \in {"idle", "free", "unused"}
    /\ CallConnect(t)

InitRetry == InitExecWith(MaxOps)

NextRetry ==
    \/ \E s \in SockIds : PeerClose(s)
    \/ \E t \in Callers : Retry(t)
    \/ \E t \in Listeners : ListenLoop(t)
    \/ \E t \in Listeners : ListenTimeout(t)
    \/ \E t \in Listeners : ListenEof(t)
    \/ \E t \in Listeners : ListenLost(t)
    \/ \E t \in Threads : ScheduleAct(t)
    \/ \E t \in Threads : ScheduleTimer(t)
    \/ \E t \in Timers : TimerExpires(t)
    \/ \E t \in Threads : ConnectOk(t)
    \/ \E t \in Threads : ConnectFail(t)
    \/ \E t \in Threads : ConnectDone(t)
    \/ \E t \in Timers : ReconnectCheck(t)

SpecRetry == InitRetry /\ [][NextRetry]_vars

\* ------------------------------------------------------------ the lock
\* commands of several callers on a connected session that a caller stops
\* meanwhile; the run ends before the Timer of a reconnect expires
InitLock == InitExecWith(1)

\* line 327: the caller acquires the lock and writes, or fails to write
Acquire(t) == ExecSend(t) \/ ExecSendError(t)

NextLock ==
    \/ \E t \in Callers : CallExecute(t, FALSE)
    \/ \E t \in Callers : Acquire(t)
    \/ \E t \in Callers : Recv(t)
    \/ \E s \in SockIds, l \in Lines : DaemonSend(s, l)
    \/ \E s \in SockIds : PeerClose(s)
    \/ \E t \in Callers : CallStop(t)
    \/ \E t \in Callers : StopFinish(t)
    \/ \E t \in Listeners : ListenLoop(t)
    \/ \E t \in Listeners : ListenData(t)
    \/ \E t \in Listeners : ListenStop(t)
    \/ \E t \in Listeners : ListenTimeout(t)
    \/ \E t \in Listeners : ListenEof(t)
    \/ \E t \in Listeners : ListenError(t)
    \/ \E t \in Listeners : ListenLost(t)
    \/ \E t \in Listeners : ScheduleAct(t)
    \/ \E t \in Listeners : ScheduleTimer(t)

\* every recv has a timeout, and a caller that waits for the lock gets it
\* once it stays free
SpecLock ==
    /\ InitLock /\ [][NextLock]_vars
    /\ \A t \in Callers : WF_vars(Recv(t)) /\ WF_vars(Acquire(t))

\* ==================================================================
\* The claims
\* ==================================================================
PendingTimers == {t \in Timers : thread[t].pc = "pending"}
LiveTimers    == {t \in Timers : thread[t].pc # "free"}
Count(name, ev) ==
    Cardinality({i \in DOMAIN ev : ev[i].kind = "status" /\ ev[i].name = name})

\* thread t takes a step from position pc
Leaves(t, pc) == thread[t].pc = pc /\ thread'[t] # thread[t]

\* C1: in every reachable state the reconnect attempt counter is at least 0
\* and at most max_reconnect_attempts, whatever the interleaving of losses,
\* connect calls and timer firings
C1_AttemptsWithinMax ==
    reconnect_attempts >= 0 /\ reconnect_attempts <= max_reconnect_attempts

\* the threads inside the body of _schedule_reconnect: an attempt is being
\* counted, announced and given its Timer
Scheduling == {t \in Threads : thread[t].pc \in {"sr_act", "sr_timer"}}

\* the reconnection is exhausted: the counter has reached the maximum, the
\* session is not connected, no Timer is pending or running and no attempt
\* is being scheduled
Exhausted ==
    /\ reconnect_attempts >= max_reconnect_attempts
    /\ ~connected
    /\ LiveTimers = {}
    /\ Scheduling = {}

\* the step in which _reconnect gives up: the attempt of Timer thread t has
\* failed, line 307 finds no attempt left and the thread ends, which leaves
\* the reconnection exhausted
GivesUp(t) ==
    /\ Leaves(t, "r_check")
    /\ reconnect_attempts >= max_reconnect_attempts
    /\ LiveTimers = {t}
    /\ Scheduling = {}

\* C2: when the reconnection is exhausted the session emits the status event
\* give-up, exactly once for that exhaustion
C2_GiveUpOnce ==
    [][\A t \in Timers : GivesUp(t) => Count("give-up", emitted') = 1]_vars

\* a caller issues start_rigctld or connect in this step
ExternalRequest == ops' < ops /\ \E t \in Callers : thread'[t].op \in {"start", "connect"}

\* the connect() of Timer thread t fails in this step with no attempt left
LastAttemptFails(t) ==
    /\ t \in Timers /\ Leaves(t, "c_conn") /\ ~connected'
    /\ reconnect_attempts >= max_reconnect_attempts

\* C3: the attempt that fails with the counter at the maximum schedules
\* nothing, and once the reconnection is exhausted no reconnect Timer is
\* pending and no attempt is scheduled or made until a caller issues connect
\* or start_rigctld
C3_NoAttemptAfterExhaustion ==
    [][/\ \A t \in Timers : LastAttemptFails(t) => thread'[t].pc = "r_check"
       /\ (Exhausted /\ ~ExternalRequest) => (LiveTimers' = {} /\ Scheduling' = {})]_vars

\* the reconnection is exhausted after its last attempt has failed
C3_Witness ==
    /\ Exhausted
    /\ reconnect_attempts = max_reconnect_attempts
    /\ socket # 0 /\ sock[socket].st = "unconn"
    /\ \A t \in Threads : thread[t].pc \in {"idle", "free", "unused"}

\* C4: at most one reconnect Timer is pending at any time
C4_OneTimerPending == Cardinality(PendingTimers) <= 1

\* C5: every connect() that succeeds, called by start_rigctld, by a Timer
\* thread or by a caller, leaves the attempt counter at zero when it returns
C5_SuccessResetsAttempts ==
    [][\A t \in Threads : Leaves(t, "c_done") => reconnect_attempts' = 0]_vars

\* an automatic reconnect has succeeded while the counter counted attempts
C5_Witness ==
    \E t \in Timers : At(t, "c_done") /\ connected /\ reconnect_attempts > 0

\* C6: every automatic reconnect attempt that succeeds emits the status
\* event connected
C6_ReconnectEmitsConnected ==
    [][\A t \in Timers : Leaves(t, "c_done") => Count("connected", emitted') >= 1]_vars

\* the execute_command calls that have written their command and have
\* neither their response nor an error yet
InFlight == {t \in Callers : thread[t].pc = "x_recv"}

\* C7: at most one execute_command call is in flight at any time, and
\* whoever is in flight holds the lock the others wait for
C7_OneInFlight ==
    /\ Cardinality(InFlight) <= 1
    /\ \A t \in InFlight : socket_lock = t

\* one call is in flight while another caller waits for the lock
C7_Witness ==
    \E t, u \in Callers : At(t, "x_recv") /\ At(u, "x_lock") /\ socket_lock = t

\* caller t writes its command in this step
Writes(t) == thread[t].pc = "x_lock" /\ thread'[t].pc = "x_recv"

\* C8: a request is written only after the exchange of the request before it
\* has ended, its own status line read or its deadline expired (or its
\* connection gone); no two exchanges overlap on the wire
C8_ExchangesDoNotOverlap ==
    [][\A t \in Callers : Writes(t) => outstanding = 0]_vars

\* C9: a call that returns a response returns what the daemon sent for that
\* call's own command, never the response to an earlier command
C9_OwnResponse ==
    \A i \in DOMAIN returned :
        returned[i].what = "Response" =>
            \A k \in DOMAIN returned[i].resp : returned[i].resp[k].req = returned[i].cmd

\* C10: execute_command and the typed operations, called while the session
\* is not connected, raise NotConnected in that step and neither write to
\* nor read from a socket
C10_NotConnectedNoIO ==
    [][(calls' = calls + 1 /\ ~connected) =>
          /\ returned' # <<>> /\ returned'[1].what = "NotConnected"
          /\ sock' = sock /\ socket_lock' = socket_lock /\ thread' = thread]_vars

\* a call made on a session that lost its connection has raised NotConnected
C10_Witness ==
    /\ ~connected /\ socket # 0
    /\ returned # <<>> /\ returned[1].what = "NotConnected"

\* the last line of what a call has read is a status line
EndsInStatus(resp) == resp # <<>> /\ StatusLine(resp[Len(resp)].line)

\* call t ends in this step
Ends(t) == Leaves(t, "x_recv") /\ returned' # <<>> /\ returned'[1].thread = t

\* C11: a call whose response has no terminal status line when its deadline
\* expires, the connection still open, raises a timeout error, whether the
\* daemon sent nothing or sent data without a terminator; it never returns
\* the unterminated text as a normal result
C11_UnterminatedTimesOut ==
    [][\A t \in Callers :
          (Ends(t) /\ sock[thread[t].sk].st = "open" /\ ~EndsInStatus(returned'[1].resp))
              => returned'[1].what = "Timeout"]_vars

\* C13: the step in which a call reads a status line, RPRT 0 or RPRT with
\* any negative code, ends the call with the response; it does not go on
\* waiting for the deadline
C13_StopsAtStatusLine ==
    [][\A t \in Callers :
          (/\ Leaves(t, "x_recv")
           /\ sock[thread[t].sk].rx # <<>>
           /\ StatusLine(Head(sock[thread[t].sk].rx).line))
              => (Ends(t) /\ returned'[1].what = "Response")]_vars

\* C16: a data event is published only for a line received while no command
\* is in flight; the lines that arrive while a call waits go to that call
C16_ResponseNotPublished ==
    [][\A i \in DOMAIN emitted' : emitted'[i].kind = "data" => InFlight = {}]_vars

\* text r is text s without the white space at its two ends
IsStripped(r, s) ==
    \E i \in 1..(Len(s) + 1), j \in 0..Len(s) :
        /\ r = SubSeq(s, i, j)
        /\ \A k \in 1..(i - 1) : s[k] \in Whitespace
        /\ \A k \in (j + 1)..Len(s) : s[k] \in Whitespace
        /\ r # <<>> => (r[1] \notin Whitespace /\ r[Len(r)] \notin Whitespace)

\* the bytes written in this step
Written == sock'[socket].pend[Len(sock'[socket].pend)]

\* C14: the bytes a call writes are its command followed by exactly one line
\* terminator when the command does not end with one and the command
\* unchanged when it does; the text a call returns is the response it read
\* with the white space at both ends removed
C14_WireAndResult ==
    [][\A t \in Callers :
          /\ Writes(t) =>
                Written = IF EndsWithNewline(thread[t].cmd)
                          THEN Encode(thread[t].cmd)
                          ELSE Encode(thread[t].cmd) \o <<Code("\n")>>
          /\ Leaves(t, "x_ret") =>
                /\ returned' # <<>> /\ returned'[1].what = "Response"
                /\ IsStripped(returned'[1].resp, Decode(thread[t].resp))]_vars

\* a command without a terminator was written with one and the call has
\* returned the text of a response that came with white space around it
C14_Witness ==
    /\ returned # <<>> /\ returned[1].what = "Response"
    /\ returned[1].cmd = <<"f", " ", "f">>
    /\ returned[1].resp = <<"f">>
    /\ calls = 1

\* the _listen threads that stand before line 278, about to report the loss
\* of the connection of socket s
Reporting(s) == {t \in Listeners : thread[t].pc = "l_lost" /\ thread[t].sk = s}

\* C17: a receive loop that sees EOF or a read error while the session is
\* connected marks the session disconnected, the loss of a connection is
\* reported by exactly one status event disconnected, and the thread then
\* schedules a reconnect attempt if attempts remain and none is pending
C17_LossReportedOnce ==
    [][/\ \A s \in SockIds : Cardinality(Reporting(s)') <= 1
       /\ \A t \in Listeners :
             Leaves(t, "l_lost") =>
                 /\ ~connected'
                 /\ Count("disconnected", emitted') = 1
                 /\ (reconnect_attempts < max_reconnect_attempts /\ reconnect_timer = 0)
                        => thread'[t].pc = "sr_act"]_vars

\* C18: a _listen thread that left its loop because stop() closed and dropped
\* the socket ends without entering _schedule_reconnect: a stop makes no
\* reconnecting event and no reconnect Timer
C18_StopSchedulesNothing ==
    [][\A t \in Listeners :
          (Leaves(t, "l_lost") /\ thread[t].op = "stop")
              => (thread'[t].pc # "sr_act" /\ Count("reconnecting", emitted') = 0)]_vars

\* stop() has returned (or nothing was ever started) and no caller has
\* asked for anything since
Stopped ==
    /\ socket = 0 /\ rigctld_process = "none" /\ ~connected
    /\ \A c \in Callers : thread[c].pc = "idle"

\* C19: once stop() has returned no connect attempt is made and the session
\* does not become connected until a caller issues start_rigctld or connect
C19_StopCancelsTimer ==
    [][(Stopped /\ ~ExternalRequest) => (socket' = 0 /\ ~connected')]_vars

\* C20: stop() can be called in every state, and when a call of stop()
\* returns the session holds no socket and no daemon process and is not
\* connected
C20_StopLeavesNothing ==
    [][\A c \in Callers :
          Leaves(c, "st_finish")
              => (socket' = 0 /\ rigctld_process' = "none" /\ ~connected')]_vars

\* C12: every execute_command call that has written its command returns or
\* raises, whether the daemon stays silent, sends data without a terminator
\* or closes the connection, and whether stop() or a connect closes or
\* replaces the socket meanwhile
C12_ExecuteReturns ==
    \A t \in Callers : (thread[t].pc = "x_recv") ~> (thread[t].pc = "idle")

\* a call is in flight on the socket that stop() has closed and dropped
C12_Witness ==
    \E t \in Callers :
        At(t, "x_recv") /\ sock[thread[t].sk].st = "closed" /\ socket = 0

\* C15: a call writes its command once: a thread comes to write only through
\* a new call with a new command, a call that waits for its response never
\* goes back to writing but ends, reported to its caller once, and nothing
\* is written to a socket but the command of the call that writes
C15_WrittenOnce ==
    [][/\ \A t \in Callers :
             /\ (thread'[t].pc = "x_lock" /\ thread[t].pc # "x_lock")
                   => (thread[t].pc = "idle" /\ calls' = calls + 1 /\ thread'[t].cmd = calls')
             /\ thread[t].pc = "x_recv" => thread'[t].pc \in {"x_recv", "idle"}
             /\ (thread[t].pc = "x_recv" /\ thread'[t].pc = "idle")
                   => (/\ Len(returned') = 1
                       /\ returned'[1].thread = t /\ returned'[1].cmd = thread[t].cmd)
       /\ \A s \in SockIds :
             Len(sock'[s].pend) > Len(sock[s].pend)
                 => \E t \in Callers :
                       Writes(t) /\ sock'[s].pend = Append(sock[s].pend, thread[t].cmd)]_vars

\* a call has ended in a timeout after a reconnect replaced the socket it
\* had written to, and the new connection carries no command
C15_Witness ==
    /\ returned # <<>> /\ returned[1].what = "Timeout"
    /\ socket = 2 /\ sock[2].st = "open" /\ sock[2].pend = <<>>
    /\ connected

\* ------------------------------------------------------------ events
\* the handlers registered for kind k, and the threads inside emit()
Emitting == {t \in Callers : thread[t].pc = "e_loop"}
EmitEnds(t) == Leaves(t, "e_loop") /\ thread'[t].pc = "idle"

\* C21: a handler that raises during emit() does not keep the handlers after
\* it from being called, and what it raised does not leave emit(): after a
\* handler has raised, the next thing emit() does is to call the handler
\* that follows it in the list or, when there is none, to return normally
C21_RaisingHandlerIsolated ==
    [][\A t \in Emitting :
         /\ returned' # <<>> /\ returned'[1].thread = t => returned'[1].what = "Emitted"
         /\ (thread[t].resp # <<>> /\ thread[t].resp[Len(thread[t].resp)].raises
             /\ thread'[t] # thread[t])
            => LET list == event_callbacks[thread[t].op]
                   i == thread[t].cmd
               IN  IF i < Len(list)
                   THEN thread'[t].resp = Append(thread[t].resp, list[i + 1])
                   ELSE returned' = Returned(t, thread[t].op, "Emitted", thread[t].resp)]_vars

\* emit() has called a handler that raised and then the one after it
C21_Witness ==
    \E t \in Emitting :
        /\ Len(thread[t].resp) >= 2
        /\ thread[t].resp[1].raises
        /\ thread[t].resp[2] # thread[t].resp[1]

\* C22: emit() calls every handler registered for the kind once, before it
\* returns, in the order of registration, and no handler of another kind:
\* when emit() returns, the handlers it has called are the list of the kind
C22_EmitCallsEachInOrder ==
    [][\A t \in Emitting :
         EmitEnds(t) => /\ returned' # <<>>
                        /\ returned'[1].resp = event_callbacks[thread[t].op]]_vars

\* emit() has called two handlers of the kind while a handler of another
\* kind, which it has not called, is registered
C22_Witness ==
    /\ returned # <<>> /\ returned[1].what = "Emitted"
    /\ Len(returned[1].resp) = 2
    /\ returned[1].resp[1] # returned[1].resp[2]
    /\ \E k \in Kinds \ {returned[1].cmd} :
          /\ event_callbacks[k] # <<>>
          /\ \A i \in 1..2 : event_callbacks[k][1] # returned[1].resp[i]

\* ------------------------------------------------------------ start
\* a step in which start_rigctld is called
StartCalled == ops' < ops
\* the status events of name `name` among ev, and whether ev is one error
OneError(ev) == Len(ev) = 1 /\ ev[1].kind = "status" /\ ev[1].name = "error"
ReturnsFalse == returned' # <<>> /\ returned'[1].what = "False"

\* C23: when no rigctld binary was found, start_rigctld returns False with
\* one 'error' status event; it spawns no process, attempts no connect,
\* schedules no reconnect and leaves model, device, port and the connection
\* state as they were
C23_NoBinaryNoEffect ==
    [][(StartCalled /\ binary_path = "None") =>
         /\ ReturnsFalse
         /\ OneError(emitted')
         /\ UNCHANGED <<rigctld_process, args>>
         /\ UNCHANGED <<thread, socket, sock>>
         /\ UNCHANGED <<reconnect_timer, reconnect_attempts>>
         /\ UNCHANGED <<model, device, port, connected>>]_vars

\* start_rigctld has returned False for want of a binary, called with a
\* configuration that names another model
C23_Witness ==
    /\ binary_path = "None"
    /\ returned # <<>> /\ returned[1].what = "False" /\ returned[1].cmd.model # 0
    /\ OneError(emitted)

\* C24: when the spawned process has exited by the end of the grace period
\* (the step in which self.rigctld_process comes to name an exited process),
\* start_rigctld returns False with one 'error' status event that carries
\* what the process wrote to its standard error; it attempts no connect and
\* schedules no reconnect, so that the session is as connected as before
\* and no Timer is pending that was not
C24_ExitedProcessFails ==
    [][(StartCalled /\ rigctld_process # "exited" /\ rigctld_process' = "exited") =>
         /\ ReturnsFalse
         /\ OneError(emitted')
         /\ emitted'[1].message = "rigctld failed to start"
         /\ emitted'[1].detail \in Stderrs
         /\ UNCHANGED <<thread, socket, sock>>
         /\ UNCHANGED <<reconnect_timer, reconnect_attempts, connected>>]_vars

\* the process of a disconnected session has exited, having written
\* something, and start_rigctld has returned False
C24_Witness ==
    /\ rigctld_process = "exited"
    /\ returned # <<>> /\ returned[1].what = "False"
    /\ OneError(emitted) /\ emitted[1].detail # ""
    /\ ~connected /\ reconnect_timer = 0 /\ PendingTimers = {}

Answered(t) == thread[t].pc = "t_recv" /\ thread'[t].pc = "idle" /\ sock[thread[t].sk].rx # <<>>
Answer(t) == Head(sock[thread[t].sk].rx)
\* the answer is ln, a newline and the status line RPRT 0
Succeeds(text, ln) == text = ln \o <<"\n", "RPRT", " ", "0", "\n">>
\* the answer ends in a status line that is not RPRT 0
FailureStatus(text) ==
    \E n \in {"1", "5"} : EndsWith(text, <<"\n", "RPRT", " ", "-", n, "\n">>)
\* words without white space, and those made of digits
Tokens == {w \in Bodies : w # <<>> /\ \A i \in DOMAIN w : w[i] \notin Whitespace}
Numerals == {w \in Tokens : \A i \in DOMAIN w : w[i] \in {"0", "1"}}
\* the number a numeral of zeros and ones denotes
RECURSIVE Decimal(_)
Decimal(w) == IF w = <<>> THEN 0
              ELSE 10 * Decimal(SubSeq(w, 1, Len(w) - 1)) + (IF w[Len(w)] = "1" THEN 1 ELSE 0)

\* C26: get_mode, on a successful response whose first line is a mode token
\* followed by a passband, returns that mode and the passband as an integer,
\* and the passband 0 when the first line holds the mode token only
C26_ModeAndPassband ==
    [][\A t \in Callers :
         (Answered(t) /\ thread[t].op = "get_mode") =>
            \A m \in Tokens :
               /\ Succeeds(Answer(t), m) =>
                     /\ returned'[1].what = "Value"
                     /\ returned'[1].resp = [mode |-> m, passband |-> 0]
               /\ \A pb \in Numerals :
                     Succeeds(Answer(t), m \o <<" ">> \o pb) =>
                        /\ returned'[1].what = "Value"
                        /\ returned'[1].resp = [mode |-> m, passband |-> Decimal(pb)]]_vars

\* get_mode has returned the mode U with the passband 1
C26_Witness ==
    /\ returned # <<>> /\ returned[1].cmd.op = "get_mode" /\ returned[1].what = "Value"
    /\ returned[1].resp = [mode |-> <<"U">>, passband |-> 1]

\* C27: get_ptt returns true exactly when the integer on the first line of a
\* successful response is not zero
C27_PttNonzero ==
    [][\A t \in Callers :
         (Answered(t) /\ thread[t].op = "get_ptt") =>
            \A v \in Numerals :
               Succeeds(Answer(t), v) =>
                  /\ returned'[1].what = "Value"
                  /\ returned'[1].resp = (\E i \in DOMAIN v : v[i] = "1")]_vars

\* get_ptt has returned true
C27_Witness ==
    /\ returned # <<>> /\ returned[1].cmd.op = "get_ptt" /\ returned[1].what = "Value"
    /\ returned[1].resp = TRUE

\* the commands rigctld has been sent on the session's socket
Sent == sock[socket].pend

\* C28: set_frequency(f) followed by get_frequency() returns the value on the
\* first line of the response to the get, parsed as a number, and each of
\* the two operations writes exactly one command
C28_SetThenGetFrequency ==
    [][\A t \in Callers :
         /\ (thread[t].pc = "idle" /\ thread'[t].pc = "t_recv" /\ thread'[t].op = "get_freq")
               => Sent' = Append(Sent, <<"\\get_freq", "\n">>)
         /\ (thread[t].pc = "idle" /\ thread'[t].pc = "t_recv" /\ thread'[t].op = "set_freq")
               => Sent' = Append(Sent, <<"\\set_freq", " ", "1", "4", ".", "0", "\n">>)
         /\ (thread[t].pc = "t_recv" /\ thread[t].op \in {"get_freq", "set_freq"})
               => Sent' = Sent /\ calls' = calls
         /\ (Answered(t) /\ thread[t].op = "get_freq") =>
               \A v \in Numerals :
                  Succeeds(Answer(t), v) =>
                     /\ returned'[1].what = "Value"
                     /\ returned'[1].resp = [whole |-> Decimal(v), frac |-> <<>>]]_vars

\* after set_frequency(14.0), get_frequency() has returned 110.0
C28_Witness ==
    /\ Sent = << <<"\\set_freq", " ", "1", "4", ".", "0", "\n">>, <<"\\get_freq", "\n">> >>
    /\ returned # <<>> /\ returned[1].cmd.op = "get_freq" /\ returned[1].what = "Value"
    /\ returned[1].resp.whole = 110

\* C29: every typed operation raises, in the call and once, when the response
\* of rigctld carries a failure status instead of RPRT 0: a set operation
\* does not return true and a get operation returns no value; a set
\* operation returns true exactly when the response carries RPRT 0
C29_FailureStatusRaises ==
    [][\A t \in Callers :
         Answered(t) =>
            /\ Len(returned') = 1 /\ returned'[1].thread = t
            /\ FailureStatus(Answer(t)) => returned'[1].what = "Raised"
            /\ thread[t].op \in Sets =>
                  /\ returned'[1].what = "Value" <=> HasOk(Answer(t))
                  /\ returned'[1].what = "Value" => returned'[1].resp = TRUE]_vars

\* a set operation has raised on a response that ends in RPRT -1
C29_Witness ==
    /\ returned # <<>> /\ returned[1].cmd.op \in Sets /\ returned[1].what = "Raised"
    /\ EndsWith(returned[1].resp, <<"RPRT", " ", "-", "1">>)

\* ------------------------------------------------------------ information
\* get_info ends in this step; the sub-query answered in it would have
\* succeeded as the operation op
InfoEnds(t) == thread[t].pc \in Reading \ {"t_recv"} /\ thread'[t].pc = "idle"
Succeeded(t, op) ==
    /\ sock[thread[t].sk].rx # <<>>
    /\ Terminated(Answer(t))
    /\ Result(op, Strip(Answer(t))).what = "Value"
Has(info, keys) == keys \subseteq DOMAIN info
Lacks(info, keys) == keys \cap DOMAIN info = {}

\* C30: get_info on a connected session returns an aggregate that always
\* holds model and device, holds the frequency exactly when the frequency
\* sub-query succeeded and the mode and the passband exactly when the mode
\* sub-query succeeded; the failure of a sub-query never makes get_info fail
C30_InfoToleratesFailures ==
    [][\A t \in Callers :
         /\ InfoEnds(t) => /\ returned'[1].what = "Value"
                           /\ Has(returned'[1].resp, {"model", "device"})
         /\ (thread[t].pc = "i_freq" /\ thread'[t].pc = "i_mode") =>
               IF Succeeded(t, "get_freq")
               THEN Has(thread'[t].resp, {"frequency"})
               ELSE Lacks(thread'[t].resp, {"frequency"})
         /\ (thread[t].pc = "i_mode" /\ thread'[t].pc = "idle") =>
               /\ Has(returned'[1].resp, {"frequency"}) <=> Has(thread[t].resp, {"frequency"})
               /\ IF Succeeded(t, "get_mode")
                  THEN Has(returned'[1].resp, {"mode", "passband"})
                  ELSE Lacks(returned'[1].resp, {"mode", "passband"})]_vars

\* ------------------------------------------------------------ configuration
\* load_config returns in this step
Loads == returned' # <<>> /\ returned'[1].what = "Config"

\* the file gives a value to key k of section s
Provides(f, s, k) == f.exists /\ s \in DOMAIN f.content /\ k \in DOMAIN f.content[s]

\* C31: load_config returns, for every section and key of the built-in
\* defaults, the value the file gives when it gives one and the default value
\* otherwise, whatever load_config and update_config calls were made before
C31_LoadConfigMerges ==
    [][Loads =>
          \A s \in DOMAIN BuiltIn : \A k \in DOMAIN BuiltIn[s] :
              returned'[1].resp[s][k] = IF Provides(config_file, s, k)
                                        THEN config_file.content[s][k]
                                        ELSE BuiltIn[s][k]]_vars

\* ------------------------------------------------------------ liveness of the session
\* the session is alive: start_rigctld has spawned the daemon and no stop()
\* has been called since
Alive == rigctld_process = "running" /\ \A c \in Callers : thread[c].op # "stop"

\* the threads inside connect(): an attempt is in progress
Connecting == {t \in Threads : thread[t].pc \in {"c_open", "c_conn", "c_done"}}

\* the session is trying to be connected: an attempt is in progress, a Timer
\* is pending, or a thread is on its way into _schedule_reconnect (it reports
\* a loss, schedules, or decides after its attempt has failed)
Trying ==
    \/ Connecting # {}
    \/ PendingTimers # {}
    \/ Scheduling # {}
    \/ \E t \in Threads : thread[t].pc \in {"l_lost", "r_check"}

\* C32: while the session is alive it is connected or trying to be, in every
\* reachable state: it is never disconnected with nothing scheduled
C32_ConnectedOrTrying == Alive => (connected \/ Trying)

\* ------------------------------------------------------------ retries
\* the connect() of thread t fails in this step
Fails(t) == Leaves(t, "c_conn") /\ thread'[t].pc # "c_done"

Attempts(t) == thread'[t].pc = "c_conn" /\ thread[t].pc # "c_conn"

\* C34: every connect attempt is announced before it is made: the attempt of
\* a caller (start_rigctld, connect) by a status event connecting, emitted in
\* the step that begins it or in the step before, and the attempt of a Timer
\* by the status event reconnecting of the step that counted it, which
\* carries the counter raised by one
C34_AttemptsAnnounced ==
    [][/\ \A t \in Callers :
             Attempts(t) => (Count("connecting", emitted') = 1
                               \/ Count("connecting", emitted) = 1)
       /\ \A t \in Threads :
             Leaves(t, "sr_act") =>
                 /\ emitted' = <<Status("reconnecting", reconnect_attempts')>>
                 /\ reconnect_attempts' = reconnect_attempts + 1
       /\ \A t \in Timers :
             (thread'[t].pc = "pending" /\ thread[t].pc # "pending")
                 => \E u \in Threads : Leaves(u, "sr_timer")]_vars

\* ------------------------------------------------------------ ownership
\* the socket objects that are not closed
Unclosed == {s \in SockIds : sock[s].st \in {"unconn", "open", "eof"}}

\* C35: the session has at most one live rigctld process and at most one
\* socket that is not closed, and they are the ones it owns: the process
\* self.rigctld_process names and the socket self.socket names; starting
\* again leaves no earlier process alive
C35_OneProcessOneSocket ==
    /\ daemons <= 1
    /\ daemons = 1 => rigctld_process = "running"
    /\ Cardinality(Unclosed) <= 1
    /\ Unclosed \subseteq {socket}

\* ------------------------------------------------------------ receive loops
\* the _listen threads blocked in the recv of line 257 on socket s
Readers(s) == {t \in Listeners : thread[t].pc = "l_recv" /\ thread[t].sk = s}

\* the session has a connection that is alive
Live == socket # 0 /\ sock[socket].st = "open"

\* C36: no two receive loops read the same socket, and a receive loop that
\* reports a loss reports the connection it was reading, never a later
\* connection that is alive
C36_OneLoopPerConnection ==
    [][/\ \A s \in SockIds : Cardinality(Readers(s)') <= 1
       /\ \A t \in Listeners :
             Leaves(t, "l_lost") => (~Live \/ thread[t].sk = socket)]_vars

\* ------------------------------------------------------------ left-over Timers
\* C37: no reconnect Timer is pending while the session is connected, and a
\* Timer that expires finds the session disconnected: its connect() closes
\* and replaces no connection that is alive
C37_TimerOnlyWhileDisconnected ==
    [][/\ connected' => PendingTimers' = {}
       /\ \A t \in Timers : Leaves(t, "pending") => (~connected /\ ~Live)]_vars

\* ------------------------------------------------------------ the lock
\* the callers inside execute_command
Executing == {t \in Callers : thread[t].pc \in {"x_lock", "x_recv"}}

\* C38: the lock is held only by a call that has written and waits for its
\* response, every step in which a call ends leaves the lock free, and every
\* call of every caller ends, whether it returns, times out, fails on the
\* socket or finds the socket removed by stop()
C38_LockReleased ==
    /\ [](socket_lock # 0 => (socket_lock \in Callers /\ thread[socket_lock].pc = "x_recv"))
    /\ [](InFlight = {} => socket_lock = 0)
    /\ [][\A t \in Callers :
            (Leaves(t, "x_recv") /\ thread'[t].pc = "idle")
                => (socket_lock = t /\ socket_lock' = 0 /\ Len(returned') = 1)]_vars
    /\ \A t \in Callers : (t \in Executing) ~> (thread[t].pc = "idle")

\* a call waits for the lock while the call that holds it, having read a
\* part of its response, waits on the connection that rigctld has closed
C38_Witness ==
    \E t, u \in Callers :
        /\ thread[t].pc = "x_recv" /\ socket_lock = t
        /\ thread[t].resp # <<>>
        /\ sock[thread[t].sk].st = "eof" /\ sock[thread[t].sk].rx = <<>>
        /\ thread[u].pc = "x_lock"

\* ------------------------------------------------------------ the retry budget
\* C39: the attempt counter is lowered only by a connect() that succeeds,
\* which sets it to zero; a connect() or start_rigctld of a caller that fails
\* with the counter at the maximum leaves the counter as it is and schedules
\* no retry, and one that succeeds leaves the counter at zero
C39_OnlySuccessRestores ==
    [][/\ reconnect_attempts' < reconnect_attempts =>
             (reconnect_attempts' = 0 /\ \E t \in Threads : Leaves(t, "c_done"))
       /\ \A t \in Callers :
             /\ (Fails(t) /\ reconnect_attempts >= max_reconnect_attempts) =>
                   /\ reconnect_attempts' = reconnect_attempts
                   /\ thread'[t].pc = "idle"
                   /\ PendingTimers' = PendingTimers
                   /\ Count("reconnecting", emitted') = 0
             /\ Leaves(t, "c_done") => reconnect_attempts' = 0]_vars

\* the connect() a caller made after the attempts were used up has failed
\* and has left the counter at the maximum and nothing scheduled
C39_Witness ==
    /\ ~connected /\ reconnect_attempts = max_reconnect_attempts
    /\ emitted = <<Status("error", 0)>>
    /\ ops < MaxOps
    /\ \A t \in Threads : thread[t].pc \in {"idle", "free", "unused"}

====
